---- MODULE Spec2Model ----
(***************************************************************************)
(* Pairing and message-relay server of the Hidden Calculator Chat          *)
(* (xdserver/server.js; server/routes.ts carries the same handlers).       *)
(*                                                                         *)
(* The four module-level Maps are the state.  Every Express handler is     *)
(* one action: Node runs a handler to completion, so the only             *)
(* interleaving is between whole handlers, the deferred deletion timers    *)
(* and the passage of time.                                                *)
(*                                                                         *)
(* For each route R, the operator ROut(inputs) is the handler run on the   *)
(* current state: the response it sends (field resp) and the value it      *)
(* leaves in each collection it writes.  The action R(inputs) installs     *)
(* those values.  A property of ROut that holds in every reachable state   *)
(* is therefore a property of every response the server can send.          *)
(*                                                                         *)
(* Representation                                                          *)
(*   - a Map is a function whose DOMAIN is the set of keys present;        *)
(*   - device ids are strings, "" is an absent/empty field (falsy);        *)
(*   - the typing marks of a pair are a plain object {} keyed by device    *)
(*     id: the key "__proto__" names the object's prototype, not a mark;   *)
(*   - a code is the numeral generateCode() prints, kept as its number;    *)
(*     0 is an absent code field;                                          *)
(*   - uuidv4() values are 1, 2, 3, ... in the order they are drawn;       *)
(*     0 is null / an absent pairId field;                                 *)
(*   - a message content is its length in characters; 0 is absent/empty;   *)
(*   - times are milliseconds as returned by Date.now();                   *)
(*   - createdAt of a pair and timestamp of a message are written once     *)
(*     and never read by the server: they are left out.                    *)
(***************************************************************************)
EXTENDS Integers, Sequences, FiniteSets, TLC

VARIABLES
    pendingCodes,      \* Map code -> [deviceId, expiresAt, pairId]
    pairs,             \* Map pairId -> [device1Id, device2Id]
    messages,          \* Map pairId -> array of [id, senderId, content, read]
    typingIndicators,  \* Map pairId -> object deviceId -> timestamp
    timers,            \* pending setTimeout callbacks of join: [code, fireAt]
    now,               \* Date.now()
    uuidCount,         \* number of uuidv4() values drawn so far
    ticks,             \* number of clock advances taken (bounds the exploration)
    issued,            \* number of codes issued (bounds the exploration)
    joinLog,           \* history: successful join responses on the entries now in pendingCodes
    pollLog,           \* history: message id -> number of polls that returned it to its recipient
    inbox              \* chat client of a device -> ids its fetch is about to report as read

vars == <<pendingCodes, pairs, messages, typingIndicators, timers, now,
          uuidCount, ticks, issued, joinLog, pollLog, inbox>>

(***************************************************************************)
(* Program constants                                                       *)
(***************************************************************************)
CodeTTL == 7 * 60 * 1000        \* expiresAt = Date.now() + 7 * 60 * 1000
GraceDelay == 5000              \* setTimeout(..., 5000)
TypingWindow == 3000            \* Date.now() - timestamp < 3000
MaxAttempts == 100              \* attempts < 100
MaxMessages == 500              \* pairMessages.length > 500
MaxContent == 1000              \* content.substring(0, 1000)
CodeBase == 1000                \* Math.floor(1000 + Math.random() * 9000)
CodeSpan == 9000
NoDevice == ""                  \* an absent or empty deviceId field
NoCode == 0                     \* an absent code field
Null == 0                       \* null, or an absent pairId field
EmptyMap == [k \in {} |-> 0]     \* new Map(), {}

(***************************************************************************)
(* Bounds of the exploration                                               *)
(***************************************************************************)
MaxPairs == 2                   \* pairs created in one run
MaxSends == 2                   \* messages sent in one run
MaxTicks == 2                   \* clock advances in one run
MaxCodes == 2                   \* codes issued in one run
MaxPolls == 2                   \* the poll history counts up to this
StartTime == 1                  \* Date.now() when the server starts
RandDen == 9000                 \* Math.random() takes the values r / RandDen

Devices == {"devA", "devB", "devC"}
RandomDraws == {0, RandDen - 1}
ContentLens == {2, 1001}
PrefixLens == {0, MaxAttempts - 2, MaxAttempts - 1}

DeviceInputs == Devices \cup {NoDevice}

Min(a, b) == IF a < b THEN a ELSE b

(***************************************************************************)
(* Utility functions                                                       *)
(***************************************************************************)
\* generateCode(): Math.floor(1000 + Math.random() * 9000).toString(),
\* with Math.random() = r / RandDen, 0 <= r < RandDen.
generateCode(r) == CodeBase + ((r * CodeSpan) \div RandDen)

\* a sweep that deletes nothing
cleanupNothing(table, t) == table

\* a sweep that spares an entry for one more millisecond
cleanupLate(table, t) ==
    [c \in {k \in DOMAIN table : ~(t > table[k].expiresAt + 1)} |-> table[c]]

\* cleanupExpiredCodes(): delete every entry with now > expiresAt.
cleanupExpiredCodes(table, t) ==
    [c \in {k \in DOMAIN table : ~(t > table[k].expiresAt)} |-> table[c]]

\* Map.delete(key)
MapDelete(map, key) == [k \in DOMAIN map \ {key} |-> map[k]]

\* Map.set(key, value)
MapSet(map, key, value) ==
    [k \in DOMAIN map \cup {key} |-> IF k = key THEN value ELSE map[k]]

\* The typing marks of a pair are a plain object, indicators = {}.
\* indicators[key] = Date.now() adds or replaces an own property, except for the
\* key "__proto__": that assignment runs the prototype setter, which ignores
\* a number, and the object is left as it was.
ProtoKey == "__proto__"

ObjSet(obj, key, value) == IF key = ProtoKey THEN obj ELSE MapSet(obj, key, value)

\* a delete that leaves the property in place
ObjKeep(obj, key) == obj

\* a delete that empties the whole object
ObjClear(obj, key) == EmptyMap

\* delete indicators[key]
ObjDelete(obj, key) == MapDelete(obj, key)

\* a pairing check that looks at device1Id only
IsPairedAsOwner(deviceId) ==
    \E p \in DOMAIN pairs : pairs[p].device1Id = deviceId

\* the loop "for (const [pairId, pair] of pairs.entries())" of generate and join
IsPaired(deviceId) ==
    \E p \in DOMAIN pairs :
        pairs[p].device1Id = deviceId \/ pairs[p].device2Id = deviceId

\* isTyping(pairId, deviceId) evaluated at time t.  For a key that is not an
\* own property, indicators[key] is undefined or an inherited object or function:
\* !timestamp returns false for undefined, and Date.now() - timestamp is NaN for
\* the others, so that NaN < 3000 is false.
isTyping(pairId, deviceId, t) ==
    IF pairId \notin DOMAIN typingIndicators THEN FALSE
    ELSE IF deviceId \notin DOMAIN typingIndicators[pairId] THEN FALSE
    ELSE IF typingIndicators[pairId][deviceId] = 0 THEN FALSE
    ELSE t - typingIndicators[pairId][deviceId] < TypingWindow

\* a single draw, taken whether or not it is in the table
GenLoopOnce(n, c, f, table, attempts) ==
    [code |-> generateCode(IF attempts + 1 <= n THEN c ELSE f), attempts |-> attempts + 1]

\* The loop  do { code = generateCode(); attempts++ }
\*           while (pendingCodes.has(code) && attempts < 100)
\* run on the Math.random() values it draws: the first n draws are c, the others f.
RECURSIVE GenLoop(_, _, _, _, _)
GenLoop(n, c, f, table, attempts) ==
    LET code == generateCode(IF attempts + 1 <= n THEN c ELSE f)
        done == attempts + 1
    IN  IF code \in DOMAIN table /\ done < MaxAttempts
        THEN GenLoop(n, c, f, table, done)
        ELSE [code |-> code, attempts |-> done]

(***************************************************************************)
(* Responses: the route and deviceId of the request, the HTTP status, the  *)
(* error text, and the fields of a success body.                           *)
(***************************************************************************)
Reply(op, deviceId, status, error) ==
    [op |-> op, deviceId |-> deviceId, status |-> status, error |-> error,
     code |-> NoCode, expiresAt |-> 0, pairId |-> Null, partnerDeviceId |-> NoDevice,
     pairing |-> "", messages |-> <<>>, partnerTyping |-> FALSE, messageId |-> Null]

Init ==
    /\ pendingCodes = EmptyMap
    /\ pairs = EmptyMap
    /\ messages = EmptyMap
    /\ typingIndicators = EmptyMap
    /\ timers = {}
    /\ now = StartTime
    /\ uuidCount = 0
    /\ ticks = 0
    /\ issued = 0
    /\ joinLog = {}
    /\ pollLog = EmptyMap
    /\ inbox = EmptyMap

\* the history is kept for the entries still in the table
LogFor(table, log) == {j \in log : j.code \in DOMAIN table}

(***************************************************************************)
(* A deviceId of the JSON body may be a number.  The model writes such a   *)
(* value as NumberId; comparisons with === treat it as any other value,    *)
(* while deviceId.substring(0, 8) of the handlers' console.log throws a    *)
(* TypeError on it, which the error middleware answers with 500.           *)
(***************************************************************************)
NumberId == "7"

HasSubstring(v) == v # NumberId

\* the body the error middleware sends
InternalError(op, deviceId) == Reply(op, deviceId, 500, "Internal server error")

(***************************************************************************)
(* POST /api/pair/generate: the response and the table it leaves           *)
(***************************************************************************)
\* an issue that drops the codes the device already holds
IssueCodeReplace(deviceId, swept, r) ==
    LET expiresAt == now + CodeTTL
        others == [k \in {x \in DOMAIN swept : swept[x].deviceId # deviceId} |-> swept[k]]
        bad(status, error) ==
            [resp |-> Reply("generate", deviceId, status, error), pendingCodes |-> swept]
    IN  IF deviceId = NoDevice
        THEN bad(400, "Device ID required")
        ELSE IF IsPaired(deviceId)
        THEN bad(400, "Device already paired")
        ELSE IF r.attempts >= MaxAttempts
        THEN bad(500, "Failed to generate unique code")
        ELSE [resp |-> [Reply("generate", deviceId, 200, "")
                          EXCEPT !.code = r.code, !.expiresAt = expiresAt],
              pendingCodes |-> MapSet(others, r.code,
                    [deviceId |-> deviceId, expiresAt |-> expiresAt, pairId |-> Null])]

IssueCode(deviceId, swept, r) ==
    LET expiresAt == now + CodeTTL
        bad(status, error) ==
            [resp |-> Reply("generate", deviceId, status, error), pendingCodes |-> swept]
    IN  IF deviceId = NoDevice
        THEN bad(400, "Device ID required")
        ELSE IF IsPaired(deviceId)
        THEN bad(400, "Device already paired")
        ELSE IF r.attempts >= MaxAttempts
        THEN bad(500, "Failed to generate unique code")
        ELSE [resp |-> IF HasSubstring(deviceId)
                       THEN [Reply("generate", deviceId, 200, "")
                                EXCEPT !.code = r.code, !.expiresAt = expiresAt]
                       ELSE InternalError("generate", deviceId),
              pendingCodes |-> MapSet(swept, r.code,
                    [deviceId |-> deviceId, expiresAt |-> expiresAt, pairId |-> Null])]

GenerateOut(deviceId, n, c, f) ==
    LET swept == CHOOSE t \in {cleanupExpiredCodes(pendingCodes, now)} : TRUE
        r == CHOOSE x \in {GenLoop(n, c, f, swept, 0)} : TRUE
    IN  IssueCode(deviceId, swept, r)

Generate(deviceId, n, c, f) ==
    \E o \in {GenerateOut(deviceId, n, c, f)} :
    \* the entry is stored before the log line that may throw
    LET stored == o.resp.status = 200 \/ o.resp.error = "Internal server error" IN
    /\ stored => issued < MaxCodes
    /\ issued' = IF stored THEN issued + 1 ELSE issued
    /\ pendingCodes' = o.pendingCodes
    /\ joinLog' = {j \in LogFor(o.pendingCodes, joinLog) :
                        j.code \in DOMAIN pendingCodes
                            /\ o.pendingCodes[j.code] = pendingCodes[j.code]}
    /\ UNCHANGED <<inbox, pairs, messages, typingIndicators, timers, now, uuidCount, ticks,
                   pollLog>>

(***************************************************************************)
(* POST /api/pair/join                                                     *)
(* dt is the time that passes between the Date.now() of the sweep and the  *)
(* Date.now() of the expiry check.                                         *)
(***************************************************************************)
\* a pair that stores the joiner in both places
NewPairJoinerTwice(owner, joiner) == [device1Id |-> joiner, device2Id |-> joiner]

\* the value of pairs.set(pairId, {device1Id, device2Id, createdAt})
NewPair(owner, joiner) == [device1Id |-> owner, device2Id |-> joiner]

\* an ownership test that every device passes
AnyoneOwner(pendingCode, deviceId) == TRUE

\* no self-pair check
NeverOwner(pendingCode, deviceId) == FALSE

\* "Cannot pair with yourself": pendingCode.deviceId === deviceId
IsOwner(pendingCode, deviceId) == pendingCode.deviceId = deviceId

\* a join that looks the code up before it checks the caller's Pair
JoinOutLookupFirst(deviceId, code, dt) ==
    LET swept == cleanupExpiredCodes(pendingCodes, now)
        now2 == now + dt
        pairId == uuidCount + 1
        bad(table, status, error) ==
            [resp |-> Reply("join", deviceId, status, error), pendingCodes |-> table,
             pairs |-> pairs, messages |-> messages, timers |-> timers,
             uuidCount |-> uuidCount, now |-> now2]
    IN  IF deviceId = NoDevice \/ code = NoCode
        THEN bad(swept, 400, "Device ID and code required")
        ELSE IF code \notin DOMAIN swept
        THEN bad(swept, 404, "Invalid or expired code")
        ELSE IF IsPaired(deviceId)
        THEN bad(swept, 400, "Device already paired")
        ELSE IF now2 > swept[code].expiresAt
        THEN bad(MapDelete(swept, code), 400, "Code expired")
        ELSE IF IsOwner(swept[code], deviceId)
        THEN bad(swept, 400, "Cannot pair with yourself")
        ELSE LET logged == HasSubstring(swept[code].deviceId) /\ HasSubstring(deviceId)
             IN
             [resp |-> IF logged
                       THEN [Reply("join", deviceId, 200, "")
                                EXCEPT !.pairId = pairId,
                                       !.partnerDeviceId = swept[code].deviceId]
                       ELSE InternalError("join", deviceId),
              pendingCodes |-> [swept EXCEPT ![code].pairId = pairId],
              pairs |-> MapSet(pairs, pairId, NewPair(swept[code].deviceId, deviceId)),
              messages |-> MapSet(messages, pairId, <<>>),
              timers |-> IF logged
                         THEN timers \cup {[code |-> code, fireAt |-> now2 + GraceDelay]}
                         ELSE timers,
              uuidCount |-> pairId,
              now |-> now2]

JoinOut(deviceId, code, dt) ==
    LET swept == cleanupExpiredCodes(pendingCodes, now)
        now2 == now + dt
        pairId == uuidCount + 1
        bad(table, status, error) ==
            [resp |-> Reply("join", deviceId, status, error), pendingCodes |-> table,
             pairs |-> pairs, messages |-> messages, timers |-> timers,
             uuidCount |-> uuidCount, now |-> now2]
    IN  IF deviceId = NoDevice \/ code = NoCode
        THEN bad(swept, 400, "Device ID and code required")
        ELSE IF IsPaired(deviceId)
        THEN bad(swept, 400, "Device already paired")
        ELSE IF code \notin DOMAIN swept
        THEN bad(swept, 404, "Invalid or expired code")
        ELSE IF now2 > swept[code].expiresAt
        THEN bad(MapDelete(swept, code), 400, "Code expired")
        ELSE IF IsOwner(swept[code], deviceId)
        THEN bad(swept, 400, "Cannot pair with yourself")
        ELSE LET logged == HasSubstring(swept[code].deviceId) /\ HasSubstring(deviceId)
             IN
             [resp |-> IF logged
                       THEN [Reply("join", deviceId, 200, "")
                                EXCEPT !.pairId = pairId,
                                       !.partnerDeviceId = swept[code].deviceId]
                       ELSE InternalError("join", deviceId),
              pendingCodes |-> [swept EXCEPT ![code].pairId = pairId],
              pairs |-> MapSet(pairs, pairId, NewPair(swept[code].deviceId, deviceId)),
              messages |-> MapSet(messages, pairId, <<>>),
              timers |-> IF logged
                         THEN timers \cup {[code |-> code, fireAt |-> now2 + GraceDelay]}
                         ELSE timers,
              uuidCount |-> pairId,
              now |-> now2]

\* the clock's advance inside the handler is observable only when it crosses
\* the expiry of the code being joined
CrossesExpiry(code, dt) ==
    dt > 0 => /\ code \in DOMAIN pendingCodes
              /\ pendingCodes[code].expiresAt = now

\* a join that creates the Pair without its message list
JoinNoList(deviceId, code, dt) ==
    \E o \in {JoinOut(deviceId, code, dt)} :
    /\ CrossesExpiry(code, dt)
    /\ o.pairs # pairs => Cardinality(DOMAIN pairs) < MaxPairs
    /\ pendingCodes' = o.pendingCodes
    /\ pairs' = o.pairs
    /\ timers' = o.timers
    /\ uuidCount' = o.uuidCount
    /\ now' = o.now
    /\ joinLog' = LogFor(o.pendingCodes, joinLog)
    /\ UNCHANGED <<inbox, messages, typingIndicators, ticks, issued, pollLog>>

Join(deviceId, code, dt) ==
    \E o \in {JoinOut(deviceId, code, dt)} :
    LET ok == o.resp.status = 200 IN
    /\ CrossesExpiry(code, dt)
    /\ o.pairs # pairs => Cardinality(DOMAIN pairs) < MaxPairs
    /\ pendingCodes' = o.pendingCodes
    /\ pairs' = o.pairs
    /\ messages' = o.messages
    /\ timers' = o.timers
    /\ uuidCount' = o.uuidCount
    /\ now' = o.now
    /\ joinLog' = LogFor(o.pendingCodes, joinLog) \cup
                    (IF ok THEN {[code |-> code, deviceId |-> deviceId,
                                  pairId |-> o.resp.pairId,
                                  partnerDeviceId |-> o.resp.partnerDeviceId]}
                           ELSE {})
    /\ UNCHANGED <<inbox, typingIndicators, ticks, issued, pollLog>>

\* the callback of join's setTimeout: pendingCodes.delete(code)
TimerFire(t) ==
    /\ t \in timers
    /\ now >= t.fireAt
    /\ timers' = timers \ {t}
    /\ pendingCodes' = MapDelete(pendingCodes, t.code)
    /\ joinLog' = {j \in joinLog : j.code # t.code}
    /\ UNCHANGED <<inbox, pairs, messages, typingIndicators, now, uuidCount, ticks, issued,
                   pollLog>>

(***************************************************************************)
(* GET /api/pair/status                                                    *)
(***************************************************************************)
StatusOut(deviceId, code) ==
    LET swept == cleanupExpiredCodes(pendingCodes, now)
        out(status, error) == Reply("status", deviceId, status, error)
    IN  [pendingCodes |-> swept,
         resp |->
            IF deviceId = NoDevice \/ code = NoCode
            THEN out(400, "Device ID and code required")
            ELSE IF code \notin DOMAIN swept
            THEN out(404, "Code not found")
            ELSE IF ~IsOwner(swept[code], deviceId)
            THEN out(403, "Not authorized")
            ELSE IF swept[code].pairId # Null /\ swept[code].pairId \in DOMAIN pairs
            THEN [out(200, "") EXCEPT !.pairing = "paired",
                                      !.pairId = swept[code].pairId,
                                      !.partnerDeviceId =
                                            pairs[swept[code].pairId].device2Id]
            ELSE [out(200, "") EXCEPT !.pairing = "pending"]]

Status(deviceId, code) ==
    \E o \in {StatusOut(deviceId, code)} :
    /\ pendingCodes' = o.pendingCodes
    /\ joinLog' = LogFor(o.pendingCodes, joinLog)
    /\ UNCHANGED <<inbox, pairs, messages, typingIndicators, timers, now, uuidCount, ticks,
                   issued, pollLog>>

(***************************************************************************)
(* Passage of time: the clock moves to an instant at which some comparison *)
(* of the program can change its outcome.  A deferred deletion runs at the *)
(* instant it is due: the clock does not pass a pending timer, while the   *)
(* requests that arrive at that same instant may be handled before it.     *)
(***************************************************************************)
Instants ==
    UNION { {pendingCodes[c].expiresAt, pendingCodes[c].expiresAt + 1} :
                c \in DOMAIN pendingCodes }
    \cup {t.fireAt : t \in timers}
    \cup UNION { UNION { {typingIndicators[p][d] + TypingWindow - 1,
                          typingIndicators[p][d] + TypingWindow} :
                            d \in DOMAIN typingIndicators[p] } :
                    p \in DOMAIN typingIndicators }

Tick(t) ==
    /\ ticks < MaxTicks
    /\ t \in Instants
    /\ t > now
    /\ \A tm \in timers : t <= tm.fireAt
    /\ now' = t
    /\ ticks' = ticks + 1
    /\ UNCHANGED <<inbox, pendingCodes, pairs, messages, typingIndicators, timers,
                   uuidCount, issued, joinLog, pollLog>>

(***************************************************************************)
(* Pair lookup and membership check shared by send/poll/typing/read/clear  *)
(***************************************************************************)
\* a membership check that every device passes
IsMemberAny(pairId, deviceId) == TRUE

\* a membership check with one comparison turned around
IsMemberNotOwner(pairId, deviceId) ==
    pairs[pairId].device1Id # deviceId \/ pairs[pairId].device2Id = deviceId

\* pair.device1Id !== deviceId && pair.device2Id !== deviceId, negated
IsMember(pairId, deviceId) ==
    pairs[pairId].device1Id = deviceId \/ pairs[pairId].device2Id = deviceId

\* messages.get(pairId) || []
MessagesOf(pairId) == IF pairId \in DOMAIN messages THEN messages[pairId] ELSE <<>>

\* no eviction
EvictNothing(list) == list

\* an eviction that drops the newest messages
EvictNewest(list) ==
    IF Len(list) > MaxMessages THEN SubSeq(list, 1, MaxMessages) ELSE list

\* pairMessages.splice(0, pairMessages.length - 500) when the length exceeds 500
Evict(list) ==
    IF Len(list) > MaxMessages
    THEN SubSeq(list, Len(list) - MaxMessages + 1, Len(list))
    ELSE list

(***************************************************************************)
(* POST /api/send                                                          *)
(***************************************************************************)
\* a message stored as already read
NewMessageRead(id, deviceId, content) ==
    [id |-> id, senderId |-> deviceId, content |-> Min(content, MaxContent), read |-> TRUE]

\* a message stored without its sender
NewMessageUnsigned(id, deviceId, content) ==
    [id |-> id, senderId |-> NoDevice, content |-> Min(content, MaxContent), read |-> FALSE]

\* the message object of send: {id: uuidv4(), senderId, content, timestamp, read: false}
NewMessage(id, deviceId, content) ==
    [id |-> id, senderId |-> deviceId, content |-> Min(content, MaxContent), read |-> FALSE]

\* a send that puts the new message at the head of the list
SendOutPrepend(pairId, deviceId, content) ==
    LET bad(status, error) ==
            [resp |-> Reply("send", deviceId, status, error),
             messages |-> messages, uuidCount |-> uuidCount]
        message == NewMessage(uuidCount + 1, deviceId, content)
    IN  IF pairId = Null \/ deviceId = NoDevice \/ content = 0
        THEN bad(400, "Pair ID, device ID, and content required")
        ELSE IF pairId \notin DOMAIN pairs
        THEN bad(404, "Pair not found")
        ELSE IF ~IsMember(pairId, deviceId)
        THEN bad(403, "Not authorized")
        ELSE [resp |-> [Reply("send", deviceId, 200, "") EXCEPT !.messageId = message.id],
              messages |-> MapSet(messages, pairId,
                                  Evict(<<message>> \o MessagesOf(pairId))),
              uuidCount |-> message.id]

SendOut(pairId, deviceId, content) ==
    LET bad(status, error) ==
            [resp |-> Reply("send", deviceId, status, error),
             messages |-> messages, uuidCount |-> uuidCount]
        message == NewMessage(uuidCount + 1, deviceId, content)
    IN  IF pairId = Null \/ deviceId = NoDevice \/ content = 0
        THEN bad(400, "Pair ID, device ID, and content required")
        ELSE IF pairId \notin DOMAIN pairs
        THEN bad(404, "Pair not found")
        ELSE IF ~IsMember(pairId, deviceId)
        THEN bad(403, "Not authorized")
        ELSE [resp |-> [Reply("send", deviceId, 200, "") EXCEPT !.messageId = message.id],
              messages |-> MapSet(messages, pairId,
                                  Evict(Append(MessagesOf(pairId), message))),
              uuidCount |-> message.id]

\* the history is kept for the messages still stored
StoredIds(store) == UNION { {store[p][i].id : i \in 1..Len(store[p])} : p \in DOMAIN store }
PollLogFor(store, log) == [m \in DOMAIN log \cap StoredIds(store) |-> log[m]]

Send(pairId, deviceId, content) ==
    \E o \in {SendOut(pairId, deviceId, content)} :
    /\ o.resp.status = 200 => uuidCount - Cardinality(DOMAIN pairs) < MaxSends
    /\ messages' = o.messages
    /\ uuidCount' = o.uuidCount
    /\ pollLog' = PollLogFor(o.messages, pollLog)
    /\ UNCHANGED <<inbox, pendingCodes, pairs, typingIndicators, timers, now, ticks, issued,
                   joinLog>>

(***************************************************************************)
(* GET /api/poll                                                           *)
(***************************************************************************)
\* a poll that acknowledges: it sets read on every message the caller did not send
PollOutMarking(pairId, deviceId) ==
    LET out(status, error) == Reply("poll", deviceId, status, error)
        marked == [i \in 1..Len(MessagesOf(pairId)) |->
                     IF MessagesOf(pairId)[i].senderId # deviceId
                     THEN [MessagesOf(pairId)[i] EXCEPT !.read = TRUE]
                     ELSE MessagesOf(pairId)[i]]
    IN  IF pairId = Null \/ deviceId = NoDevice
        THEN [resp |-> out(400, "Pair ID and device ID required"), messages |-> messages]
        ELSE IF pairId \notin DOMAIN pairs
        THEN [resp |-> out(404, "Pair not found"), messages |-> messages]
        ELSE IF ~IsMember(pairId, deviceId)
        THEN [resp |-> out(403, "Not authorized"), messages |-> messages]
        ELSE [resp |-> [out(200, "") EXCEPT !.messages = MessagesOf(pairId)],
              messages |-> MapSet(messages, pairId, marked)]

\* a poll whose refusal still tells whether the partner is typing and how many
\* messages are stored
PollOutLeaky(pairId, deviceId) ==
    LET out(status, error) == Reply("poll", deviceId, status, error)
        partnerDeviceId ==
            IF pairs[pairId].device1Id = deviceId
            THEN pairs[pairId].device2Id ELSE pairs[pairId].device1Id
    IN  [resp |->
            IF pairId = Null \/ deviceId = NoDevice
            THEN out(400, "Pair ID and device ID required")
            ELSE IF pairId \notin DOMAIN pairs
            THEN out(404, "Pair not found")
            ELSE IF ~IsMember(pairId, deviceId)
            THEN [out(403, "Not authorized") EXCEPT
                    !.messageId = Len(MessagesOf(pairId)),
                    !.partnerTyping = isTyping(pairId, partnerDeviceId, now)]
            ELSE [out(200, "") EXCEPT
                    !.messages = MessagesOf(pairId),
                    !.partnerTyping = isTyping(pairId, partnerDeviceId, now)],
         messages |-> messages]

PollOut(pairId, deviceId) ==
    LET out(status, error) == Reply("poll", deviceId, status, error)
        partnerDeviceId ==
            IF pairs[pairId].device1Id = deviceId
            THEN pairs[pairId].device2Id ELSE pairs[pairId].device1Id
    IN  [resp |->
            IF pairId = Null \/ deviceId = NoDevice
            THEN out(400, "Pair ID and device ID required")
            ELSE IF pairId \notin DOMAIN pairs
            THEN out(404, "Pair not found")
            ELSE IF ~IsMember(pairId, deviceId)
            THEN out(403, "Not authorized")
            ELSE [out(200, "") EXCEPT
                    !.messages = MessagesOf(pairId),
                    !.partnerTyping = isTyping(pairId, partnerDeviceId, now)],
         messages |-> messages]

\* the polls counted in the history: message ids this response hands to a device
\* other than their sender
Received(r) ==
    {r.messages[i].id : i \in {k \in 1..Len(r.messages) :
                                    r.messages[k].senderId # r.deviceId}}

Poll(pairId, deviceId) ==
    \E o \in {PollOut(pairId, deviceId)} :
    /\ messages' = o.messages
    /\ pollLog' = [m \in DOMAIN pollLog \cup Received(o.resp) |->
                     IF m \in Received(o.resp)
                     THEN Min(MaxPolls, 1 + (IF m \in DOMAIN pollLog THEN pollLog[m] ELSE 0))
                     ELSE pollLog[m]]
    /\ UNCHANGED <<inbox, pendingCodes, pairs, typingIndicators, timers, now, uuidCount,
                   ticks, issued, joinLog>>

(***************************************************************************)
(* POST /api/typing                                                        *)
(***************************************************************************)
TypingOut(pairId, deviceId, typing) ==
    LET bad(status, error) ==
            [resp |-> Reply("typing", deviceId, status, error),
             typingIndicators |-> typingIndicators]
        indicators == IF pairId \in DOMAIN typingIndicators
                      THEN typingIndicators[pairId] ELSE EmptyMap
    IN  IF pairId = Null \/ deviceId = NoDevice
        THEN bad(400, "Pair ID and device ID required")
        ELSE IF pairId \notin DOMAIN pairs
        THEN bad(404, "Pair not found")
        ELSE IF ~IsMember(pairId, deviceId)
        THEN bad(403, "Not authorized")
        ELSE [resp |-> Reply("typing", deviceId, 200, ""),
              typingIndicators |-> MapSet(typingIndicators, pairId,
                    IF typing THEN ObjSet(indicators, deviceId, now)
                              ELSE ObjDelete(indicators, deviceId))]

Typing(pairId, deviceId, typing) ==
    \E o \in {TypingOut(pairId, deviceId, typing)} :
    /\ typingIndicators' = o.typingIndicators
    /\ UNCHANGED <<inbox, pendingCodes, pairs, messages, timers, now, uuidCount, ticks,
                   issued, joinLog, pollLog>>

(***************************************************************************)
(* POST /api/read                                                          *)
(* isArray is Array.isArray(messageIds); ids is new Set(messageIds)        *)
(***************************************************************************)
\* a marking that inverts the flag of each selected message
MarkReadToggle(list, deviceId, ids) ==
    [i \in 1..Len(list) |->
        IF list[i].id \in ids /\ list[i].senderId # deviceId
        THEN [list[i] EXCEPT !.read = ~@]
        ELSE list[i]]

\* a marking that leaves read exactly the selected messages
MarkReadExactly(list, deviceId, ids) ==
    [i \in 1..Len(list) |->
        [list[i] EXCEPT !.read = list[i].id \in ids /\ list[i].senderId # deviceId]]

\* a marking that does not look at the sender
MarkReadAny(list, deviceId, ids) ==
    [i \in 1..Len(list) |->
        IF list[i].id \in ids THEN [list[i] EXCEPT !.read = TRUE] ELSE list[i]]

\* the loop "for (const message of pairMessages)" of read
MarkRead(list, deviceId, ids) ==
    [i \in 1..Len(list) |->
        IF list[i].id \in ids /\ list[i].senderId # deviceId
        THEN [list[i] EXCEPT !.read = TRUE]
        ELSE list[i]]

\* a read that rejects a set naming an id that is not in the pair's list
ReadOutStrict(pairId, deviceId, isArray, ids) ==
    LET bad(status, error) ==
            [resp |-> Reply("read", deviceId, status, error), messages |-> messages]
        known == {MessagesOf(pairId)[i].id : i \in 1..Len(MessagesOf(pairId))}
    IN  IF pairId = Null \/ deviceId = NoDevice \/ ~isArray
        THEN bad(400, "Pair ID, device ID, and message IDs required")
        ELSE IF pairId \notin DOMAIN pairs
        THEN bad(404, "Pair not found")
        ELSE IF ~IsMember(pairId, deviceId)
        THEN bad(403, "Not authorized")
        ELSE IF ~(ids \subseteq known)
        THEN bad(404, "Message not found")
        ELSE [resp |-> Reply("read", deviceId, 200, ""),
              messages |-> IF pairId \in DOMAIN messages
                           THEN [messages EXCEPT
                                   ![pairId] = MarkRead(messages[pairId], deviceId, ids)]
                           ELSE messages]

ReadOut(pairId, deviceId, isArray, ids) ==
    LET bad(status, error) ==
            [resp |-> Reply("read", deviceId, status, error), messages |-> messages]
    IN  IF pairId = Null \/ deviceId = NoDevice \/ ~isArray
        THEN bad(400, "Pair ID, device ID, and message IDs required")
        ELSE IF pairId \notin DOMAIN pairs
        THEN bad(404, "Pair not found")
        ELSE IF ~IsMember(pairId, deviceId)
        THEN bad(403, "Not authorized")
        ELSE [resp |-> Reply("read", deviceId, 200, ""),
              messages |-> IF pairId \in DOMAIN messages
                           THEN [messages EXCEPT
                                   ![pairId] = MarkRead(messages[pairId], deviceId, ids)]
                           ELSE messages]

Read(pairId, deviceId, isArray, ids) ==
    \E o \in {ReadOut(pairId, deviceId, isArray, ids)} :
    /\ messages' = o.messages
    /\ UNCHANGED <<inbox, pendingCodes, pairs, typingIndicators, timers, now, uuidCount,
                   ticks, issued, joinLog, pollLog>>

(***************************************************************************)
(* POST /api/clear                                                         *)
(***************************************************************************)
\* a clear that deletes the pair's entry of the store: messages.delete(pairId)
ClearOutDelete(pairId, deviceId) ==
    LET bad(status, error) ==
            [resp |-> Reply("clear", deviceId, status, error), messages |-> messages]
    IN  IF pairId = Null \/ deviceId = NoDevice
        THEN bad(400, "Pair ID and device ID required")
        ELSE IF pairId \notin DOMAIN pairs
        THEN bad(404, "Pair not found")
        ELSE IF ~IsMember(pairId, deviceId)
        THEN bad(403, "Not authorized")
        ELSE [resp |-> Reply("clear", deviceId, 200, ""),
              messages |-> MapDelete(messages, pairId)]

ClearOut(pairId, deviceId) ==
    LET bad(status, error) ==
            [resp |-> Reply("clear", deviceId, status, error), messages |-> messages]
    IN  IF pairId = Null \/ deviceId = NoDevice
        THEN bad(400, "Pair ID and device ID required")
        ELSE IF pairId \notin DOMAIN pairs
        THEN bad(404, "Pair not found")
        ELSE IF ~IsMember(pairId, deviceId)
        THEN bad(403, "Not authorized")
        ELSE [resp |-> Reply("clear", deviceId, 200, ""),
              messages |-> MapSet(messages, pairId, <<>>)]

Clear(pairId, deviceId) ==
    \E o \in {ClearOut(pairId, deviceId)} :
    /\ messages' = o.messages
    /\ pollLog' = PollLogFor(o.messages, pollLog)
    /\ UNCHANGED <<inbox, pendingCodes, pairs, typingIndicators, timers, now, uuidCount,
                   ticks, issued, joinLog>>

(***************************************************************************)
(* Requests are drawn from the devices, the codes generateCode() can       *)
(* print for the draws considered, the pair and message ids in use and an  *)
(* id the server never issued.                                             *)
(***************************************************************************)
CodeValues == {generateCode(r) : r \in RandomDraws}
CodeInputs == CodeValues \cup {NoCode}
UnknownId == uuidCount + 1       \* a uuid the server has not drawn
PairInputs == DOMAIN pairs \cup {UnknownId, Null}
IdInputs == StoredIds(messages) \cup {UnknownId}
ContentInputs == ContentLens \cup {0}
\* the messageIds arrays of the read requests: the sets of stored ids, and one
\* that lists an id the server never issued
ReadSets == SUBSET StoredIds(messages) \cup {{UnknownId}}

GenerateReq == \E d \in DeviceInputs, n \in PrefixLens, c \in RandomDraws, f \in RandomDraws :
                  Generate(d, n, c, f)
JoinReq == \E d \in DeviceInputs, c \in CodeInputs, dt \in {0, 1} : Join(d, c, dt)
StatusReq == \E d \in DeviceInputs, c \in CodeInputs : Status(d, c)
SendReq == \E p \in PairInputs, d \in DeviceInputs, c \in ContentInputs : Send(p, d, c)
PollReq == \E p \in PairInputs, d \in DeviceInputs : Poll(p, d)
TypingReq == \E p \in PairInputs, d \in DeviceInputs, t \in BOOLEAN : Typing(p, d, t)
ReadReq == \E p \in PairInputs, d \in DeviceInputs :
              \/ \E ids \in ReadSets : Read(p, d, TRUE, ids)
              \/ Read(p, d, FALSE, {})
ClearReq == \E p \in PairInputs, d \in DeviceInputs : Clear(p, d)
TimerReq == \E t \in timers : TimerFire(t)
TickReq == \E t \in Instants : Tick(t)

Next ==
    \/ GenerateReq
    \/ JoinReq
    \/ StatusReq
    \/ SendReq
    \/ PollReq
    \/ TypingReq
    \/ ReadReq
    \/ ClearReq
    \/ TimerReq
    \/ TickReq

Spec == Init /\ [][Next]_vars

(***************************************************************************)
(* The pairing subsystem: generate, join, status, the deferred deletions   *)
(* and the clock.  No other handler reads or writes pendingCodes or the    *)
(* timers, and none writes pairs.                                          *)
(***************************************************************************)
NextPair ==
    \/ GenerateReq
    \/ JoinReq
    \/ StatusReq
    \/ TimerReq
    \/ TickReq

SpecPair == Init /\ [][NextPair]_vars

(***************************************************************************)
(* The relay: send, poll, typing, read and clear on the pairs that joins   *)
(* on one code create.  devA owns the code, devB joins, devC stays out.  The *)
(* clock stands still: the relay's handlers other than typing and poll's   *)
(* partnerTyping do not read it.                                           *)
(***************************************************************************)
ChatCode == generateCode(0)

GenerateChat == Generate("devA", 0, 0, 0)
JoinChat == Join("devB", ChatCode, 0)

NextChat ==
    \/ GenerateChat
    \/ JoinChat
    \/ SendReq
    \/ PollReq
    \/ TypingReq
    \/ ReadReq
    \/ ClearReq

SpecChat == Init /\ [][NextChat]_vars

(***************************************************************************)
(* Typing marks and the clock: devA owns the code, a device joins it, and  *)
(* the members and an outsider send typing and poll requests while time    *)
(* passes.  The joining device is devB or a device whose id is "__proto__".*)
(***************************************************************************)
TypingJoiners == {"devB", ProtoKey}
TypingDevices == {"devA", "devB", "devC", ProtoKey}

JoinTyping == \E d \in TypingJoiners : Join(d, ChatCode, 0)
TypingPairReq == \E p \in DOMAIN pairs, d \in TypingDevices, t \in BOOLEAN : Typing(p, d, t)
PollPairReq == \E p \in DOMAIN pairs, d \in TypingDevices : Poll(p, d)

NextTyping ==
    \/ GenerateChat
    \/ JoinTyping
    \/ TypingPairReq
    \/ PollPairReq
    \/ TimerReq
    \/ TickReq

SpecTyping == Init /\ [][NextTyping]_vars

(***************************************************************************)
(* The relay with a full buffer: devA and devB were paired, the code's     *)
(* deferred deletion has run, and the two have exchanged MaxMessages - 1   *)
(* messages in turn (devA first), none of them read yet.  The next sends   *)
(* reach and pass the cap.                                                 *)
(***************************************************************************)
Backlog == MaxMessages - 1

InitCap ==
    /\ pendingCodes = EmptyMap
    /\ pairs = [p \in {1} |-> NewPair("devA", "devB")]
    /\ messages = [p \in {1} |->
                     [i \in 1..Backlog |->
                        NewMessage(i + 1, IF i % 2 = 1 THEN "devA" ELSE "devB", 2)]]
    /\ typingIndicators = EmptyMap
    /\ timers = {}
    /\ now = StartTime + GraceDelay
    /\ uuidCount = Backlog + 1
    /\ ticks = 0
    /\ issued = 1
    /\ joinLog = {}
    /\ pollLog = EmptyMap
    /\ inbox = EmptyMap

\* POST /api/send, at most MaxSends of them after the backlog
SendCap(pairId, deviceId, content) ==
    \E o \in {SendOut(pairId, deviceId, content)} :
    /\ o.resp.status = 200 => uuidCount < Backlog + 1 + MaxSends
    /\ messages' = o.messages
    /\ uuidCount' = o.uuidCount
    /\ pollLog' = PollLogFor(o.messages, pollLog)
    /\ UNCHANGED <<inbox, pendingCodes, pairs, typingIndicators, timers, now, ticks, issued,
                   joinLog>>

\* GET /api/poll, without the history of the polls
PollCap(pairId, deviceId) ==
    \E o \in {PollOut(pairId, deviceId)} :
    /\ messages' = o.messages
    /\ UNCHANGED <<inbox, pendingCodes, pairs, typingIndicators, timers, now, uuidCount,
                   ticks, issued, joinLog, pollLog>>

\* message ids a read request lists here: the oldest and the newest stored of
\* each pair, and an id the server never issued
EdgeIds ==
    UNION { IF Len(messages[p]) = 0 THEN {}
            ELSE {messages[p][1].id, messages[p][Len(messages[p])].id} :
                p \in DOMAIN messages }
    \cup {UnknownId}

\* the requests of the two paired devices
SendCapReq == \E p \in DOMAIN pairs : \E d \in {pairs[p].device1Id, pairs[p].device2Id} :
                 \E c \in ContentLens : SendCap(p, d, c)
PollCapReq == \E p \in DOMAIN pairs : \E d \in {pairs[p].device1Id, pairs[p].device2Id} :
                 PollCap(p, d)
ReadCapReq == \E p \in DOMAIN pairs : \E d \in {pairs[p].device1Id, pairs[p].device2Id} :
                 \E ids \in SUBSET EdgeIds : Read(p, d, TRUE, ids)
ClearCapReq == \E p \in DOMAIN pairs : \E d \in {pairs[p].device1Id, pairs[p].device2Id} :
                  Clear(p, d)

NextCap ==
    \/ SendCapReq
    \/ PollCapReq
    \/ ReadCapReq
    \/ ClearCapReq

SpecCap == InitCap /\ [][NextCap]_vars

(***************************************************************************)
(* Properties of the pairing subsystem (checked under SpecPair)            *)
(***************************************************************************)
PairsOf(deviceId) ==
    {p \in DOMAIN pairs : pairs[p].device1Id = deviceId \/ pairs[p].device2Id = deviceId}

Unexpired(code) == code \in DOMAIN pendingCodes /\ ~(now > pendingCodes[code].expiresAt)
Expired(code) == code \in DOMAIN pendingCodes /\ now > pendingCodes[code].expiresAt

JoinsOn(code) == {j \in joinLog : j.code = code}

\* C1: in every reachable state each device identifier appears, as device1Id
\* or device2Id, in at most one entry of the pairs table.
C1_OnePairPerDevice ==
    \A d \in Devices : Cardinality(PairsOf(d)) <= 1

\* C2: at most one join succeeds on a pending code: no entry of the pending
\* table has answered two joins with success (each of which created a Pair and
\* set the entry's pairId).
C2_OneJoinPerCode ==
    \A c \in DOMAIN pendingCodes : Cardinality(JoinsOn(c)) <= 1

\* C3: whenever join(code, joiner) succeeds, the code was pending and unexpired,
\* the pairs table it leaves is the old table plus exactly one new entry, keyed by
\* the returned pairId, whose device ids are the code's owner and the joiner; the
\* response names the owner as partnerDeviceId; every earlier Pair is unchanged.
C3_JoinAddsOnePair ==
    \A d \in DeviceInputs, c \in CodeInputs, dt \in {0, 1} :
        LET o == JoinOut(d, c, dt) IN
        o.resp.status = 200 =>
            /\ Unexpired(c)
            /\ o.resp.pairId \notin DOMAIN pairs
            /\ DOMAIN o.pairs = DOMAIN pairs \cup {o.resp.pairId}
            /\ \A q \in DOMAIN pairs : o.pairs[q] = pairs[q]
            /\ o.pairs[o.resp.pairId].device1Id = pendingCodes[c].deviceId
            /\ o.pairs[o.resp.pairId].device2Id = d
            /\ o.resp.partnerDeviceId = pendingCodes[c].deviceId
            /\ o.resp.deviceId = d

\* C3 witness: a join has succeeded and its pair is stored with the owner and the
\* joiner its response named.
C3_Witness ==
    \E j \in joinLog :
        /\ j.pairId \in DOMAIN pairs
        /\ pairs[j.pairId].device1Id = j.partnerDeviceId
        /\ pairs[j.pairId].device2Id = j.deviceId
        /\ j.partnerDeviceId = pendingCodes[j.code].deviceId

\* C4: while a Pair with devices O and J exists, every generate request and every
\* join request whose deviceId is O or J is answered 400 (with the text 'Device
\* already paired' when the request carries its fields), inserts no pending code
\* and creates no Pair.
C4_PairedDevicesRejected ==
    \A p \in DOMAIN pairs : \A d \in {pairs[p].device1Id, pairs[p].device2Id} :
        /\ \A n \in PrefixLens, c \in RandomDraws, f \in RandomDraws :
              LET o == GenerateOut(d, n, c, f) IN
              /\ o.resp.status = 400
              /\ o.resp.error = "Device already paired"
              /\ o.pendingCodes = cleanupExpiredCodes(pendingCodes, now)
        /\ \A c \in CodeInputs, dt \in {0, 1} :
              LET o == JoinOut(d, c, dt) IN
              /\ o.resp.status = 400
              /\ c # NoCode => o.resp.error = "Device already paired"
              /\ o.pendingCodes = cleanupExpiredCodes(pendingCodes, now)
              /\ o.pairs = pairs
              /\ o.messages = messages

\* C4 witness: a join has paired two devices while another code is pending,
\* unexpired and unbound, owned by a third device: only the pairing keeps the
\* paired devices from joining it.
C4_Witness ==
    \E p \in DOMAIN pairs, c \in DOMAIN pendingCodes :
        /\ Unexpired(c)
        /\ pendingCodes[c].pairId = Null
        /\ pendingCodes[c].deviceId \notin {pairs[p].device1Id, pairs[p].device2Id}
        /\ JoinOut(pairs[p].device2Id, c, 0).resp.error = "Device already paired"

\* C5: a join by the owner of a pending, unexpired code is answered 400 and creates
\* no Pair and no message list; the code's entry stays as it was (unless it expires
\* while the request is handled); and no Pair has device1Id = device2Id.
C5_NoSelfPair ==
    /\ \A c \in DOMAIN pendingCodes : \A dt \in {0, 1} :
          Unexpired(c) =>
              LET o == JoinOut(pendingCodes[c].deviceId, c, dt) IN
              /\ o.resp.status = 400
              /\ o.pairs = pairs
              /\ o.messages = messages
              /\ ~(now + dt > pendingCodes[c].expiresAt) =>
                    /\ c \in DOMAIN o.pendingCodes
                    /\ o.pendingCodes[c] = pendingCodes[c]
    /\ \A p \in DOMAIN pairs : pairs[p].device1Id # pairs[p].device2Id

\* C5 witness: pairs exist, and a code is pending whose unpaired owner is turned
\* away by the self-pair check alone.
C5_Witness ==
    /\ DOMAIN pairs # {}
    /\ \E c \in DOMAIN pendingCodes :
          /\ Unexpired(c)
          /\ pendingCodes[c].pairId = Null
          /\ ~IsPaired(pendingCodes[c].deviceId)
          /\ JoinOut(pendingCodes[c].deviceId, c, 0).resp.error = "Cannot pair with yourself"

\* C6: every code a generate request returns is a numeral in 1000..9999 that is
\* not a key of the pending table at the moment of issuance (after the sweep), and
\* every entry of that table is left as it was: none is overwritten or reassigned.
C6_IssuedCodeIsFresh ==
    \A d \in DeviceInputs, n \in PrefixLens, c \in RandomDraws, f \in RandomDraws :
        \A o \in {GenerateOut(d, n, c, f)} :
        \A swept \in {cleanupExpiredCodes(pendingCodes, now)} :
            o.resp.status = 200 =>
              /\ o.resp.code \in 1000..9999
              /\ o.resp.code \notin DOMAIN swept
              /\ DOMAIN o.pendingCodes = DOMAIN swept \cup {o.resp.code}
              /\ \A k \in DOMAIN swept : o.pendingCodes[k] = swept[k]
              /\ o.pendingCodes[o.resp.code].deviceId = d

\* C6 witness: two codes are in the table, one unexpired and one past its expiry,
\* and a generate whose first draws collide with the unexpired one is still
\* answered with a code.
C6_Witness ==
    /\ Cardinality(DOMAIN pendingCodes) = 2
    /\ \E c \in DOMAIN pendingCodes :
          /\ Unexpired(c)
          /\ \E e \in DOMAIN pendingCodes : Expired(e)
          /\ \E d \in Devices, r \in RandomDraws, f \in RandomDraws :
                /\ generateCode(r) = c
                /\ GenerateOut(d, MaxAttempts - 2, r, f).resp.status = 200

\* C7 as stated: every join on a code whose expiry has passed is answered 404.
C7_ExpiredJoinIs404 ==
    \A c \in DOMAIN pendingCodes : \A d \in Devices :
        Expired(c) => JoinOut(d, c, 0).resp.status = 404

\* C7 amended: a join on a code whose expiry has passed creates no Pair and leaves
\* the code absent from the pending table; it is answered 404 when the joining
\* device is not paired, and 400 'Device already paired' when it is.
C7_ExpiredJoinFails ==
    \A c \in DOMAIN pendingCodes : \A d \in Devices :
        Expired(c) =>
            LET o == JoinOut(d, c, 0) IN
            /\ o.pairs = pairs
            /\ o.messages = messages
            /\ c \notin DOMAIN o.pendingCodes
            /\ ~IsPaired(d) => o.resp.status = 404
            /\ IsPaired(d) => /\ o.resp.status = 400
                              /\ o.resp.error = "Device already paired"

\* C7 witness: the clock has passed the expiry of a code still in the table, and
\* both a paired and an unpaired device can send the join.
C7_Witness ==
    \E c \in DOMAIN pendingCodes :
        /\ Expired(c)
        /\ \E d \in Devices : IsPaired(d)
        /\ \E d \in Devices : ~IsPaired(d) /\ JoinOut(d, c, 0).resp.status = 404

\* C8: whenever status(owner, code) answers 'paired', its pairId and
\* partnerDeviceId are those of every join that succeeded on that code: the pairId
\* returned to the joiner, and the joiner, whose response named the owner.
C8_StatusMatchesJoin ==
    \A c \in DOMAIN pendingCodes :
        LET r == StatusOut(pendingCodes[c].deviceId, c).resp IN
        r.pairing = "paired" =>
            \A j \in JoinsOn(c) :
                /\ j.pairId = r.pairId
                /\ j.deviceId = r.partnerDeviceId
                /\ j.partnerDeviceId = pendingCodes[c].deviceId

(***************************************************************************)
(* Properties of the relay (checked under SpecChat)                        *)
(***************************************************************************)
Members(p) == {pairs[p].device1Id, pairs[p].device2Id}

\* the messages stored for pair p, as a set of [id, senderId, content, read]
Stored(p) == {MessagesOf(p)[i] : i \in 1..Len(MessagesOf(p))}

Polled(m) == m.id \in DOMAIN pollLog /\ pollLog[m.id] >= 1

Flips(p, i) ==
    /\ p \in DOMAIN messages /\ p \in DOMAIN messages'
    /\ i \in 1..Len(messages[p]) /\ i \in 1..Len(messages'[p])
    /\ messages'[p][i].id = messages[p][i].id
    /\ messages'[p][i].read # messages[p][i].read

C11_ListAtMostCap ==
    \A p \in DOMAIN messages : Len(messages[p]) <= MaxMessages

\* C11 witness: more messages have been sent on a pair than the cap allows, and
\* its list holds exactly 500.
C11_Witness ==
    \E p \in DOMAIN messages :
        /\ Len(messages[p]) = MaxMessages
        /\ uuidCount - Cardinality(DOMAIN pairs) > MaxMessages

\* C12: eviction is exact FIFO.  Ids are drawn in send order, so the list of a
\* pair is the last Len messages sent, in send order, exactly when its ids are
\* consecutive and end at the newest id drawn.  Every successful send leaves
\* min(Len + 1, 500) messages: the new one last, with the id returned, and before
\* it the newest of the old list, each with its id, senderId, content and read
\* flag as they were; a poll returns the list whole.
C12_EvictionIsFifo ==
    /\ \A p \in DOMAIN messages : \A i \in 1..Len(messages[p]) :
          messages[p][i].id = uuidCount - Len(messages[p]) + i
    /\ \A p \in DOMAIN pairs : \A d \in Members(p) :
          /\ Len(PollOut(p, d).resp.messages) = Len(messages[p])
          /\ \A c \in ContentLens : \A o \in {SendOut(p, d, c)} :
                LET old == messages[p]
                    new == o.messages[p]
                    n == Min(Len(old) + 1, MaxMessages)
                    drop == Len(old) + 1 - n
                IN  /\ o.resp.status = 200
                    /\ Len(new) = n
                    /\ new[n] = [id |-> o.resp.messageId, senderId |-> d,
                                 content |-> Min(c, MaxContent), read |-> FALSE]
                    /\ \A i \in 1..(n - 1) : new[i] = old[i + drop]

\* C12 witness: after 501 sends the list holds 500 messages, the earliest is the
\* second one sent, and it has been read since.
C12_Witness ==
    \E p \in DOMAIN pairs :
        /\ Len(messages[p]) = MaxMessages
        /\ messages[p][1].id = p + 2
        /\ messages[p][1].read

(***************************************************************************)
(* Properties of the read state (checked under SpecChat)                   *)
(***************************************************************************)
\* C13: markRead is idempotent: for every pair, reader among its members and id
\* set, read(pairId, reader, ids) leaves the pair's list marked by the handler's
\* loop and every other list alone, and the loop run again on the list it leaves
\* changes nothing: same messages, same order, same read flags.
C13_ReadIsIdempotent ==
    \A p \in DOMAIN pairs : \A d \in Members(p) : \A ids \in SUBSET IdInputs :
        \A o \in {ReadOut(p, d, TRUE, ids)} :
            /\ o.resp.status = 200
            /\ o.messages = [messages EXCEPT ![p] = MarkRead(messages[p], d, ids)]
            /\ MarkRead(o.messages[p], d, ids) = o.messages[p]

\* C13 witness: two messages of one sender are stored, one read and one not, and
\* the request that read the first one, sent again, changes nothing.
C13_Witness ==
    \E p \in DOMAIN pairs : \E m \in Stored(p), u \in Stored(p) :
        /\ m.senderId = u.senderId /\ m.read /\ ~u.read
        /\ \E d \in Members(p) \ {m.senderId} :
              ReadOut(p, d, TRUE, {m.id}).messages = messages

\* C14: read state is monotone: in every step, a message that is read and is
\* still in its pair's list afterwards is still read.
C14_ReadIsMonotone ==
    [][\A p \in DOMAIN messages \cap DOMAIN messages' :
          \A i \in 1..Len(messages[p]) : \A j \in 1..Len(messages'[p]) :
              (messages[p][i].id = messages'[p][j].id /\ messages[p][i].read)
                  => messages'[p][j].read]_vars

\* C14 witness: a message is read and its pair's list has since received a
\* message from the device that read it.
C14_Witness ==
    \E p \in DOMAIN pairs : \E m \in Stored(p), u \in Stored(p) :
        /\ m.read
        /\ u.id > m.id
        /\ u.senderId # m.senderId

\* C15: a device never marks its own message read.  A read request by a member
\* leaves every message it sent as it is, whatever ids it lists; and a read flag
\* turns true only in a step that installs the result of a read request by a
\* member of the pair, other than the message's sender, that lists its id.
C15_NoSelfRead ==
    /\ [](\A p \in DOMAIN pairs : \A d \in Members(p) : \A ids \in SUBSET IdInputs :
            \A o \in {ReadOut(p, d, TRUE, ids)} :
                /\ Len(o.messages[p]) = Len(messages[p])
                /\ \A i \in 1..Len(messages[p]) :
                      messages[p][i].senderId = d => o.messages[p][i] = messages[p][i])
    /\ [][\A p \in DOMAIN messages : \A i \in 1..Len(messages[p]) :
            (Flips(p, i) /\ messages'[p][i].read) =>
                \E d \in Members(p) \ {messages[p][i].senderId} :
                    \E ids \in SUBSET IdInputs :
                        /\ messages[p][i].id \in ids
                        /\ ReadOut(p, d, TRUE, ids).resp.status = 200
                        /\ messages' = ReadOut(p, d, TRUE, ids).messages]_vars

\* C15 witness: both devices have sent a message, only one of the two is read,
\* and the sender of the unread one asks to mark it read, to no effect.
C15_Witness ==
    \E p \in DOMAIN pairs : \E m \in Stored(p), u \in Stored(p) :
        /\ m.senderId # u.senderId /\ m.read /\ ~u.read
        /\ ReadOut(p, u.senderId, TRUE, {u.id}).resp.status = 200
        /\ ReadOut(p, u.senderId, TRUE, {u.id}).messages = messages

(***************************************************************************)
(* Properties of the typing marks (checked under SpecTyping)               *)
(***************************************************************************)
\* device d has a typing mark in pair p
HasMark(p, d) == p \in DOMAIN typingIndicators /\ d \in DOMAIN typingIndicators[p]

\* C16: the partnerTyping that poll(pairId, viewer) returns is true exactly when
\* the other member of the pair has a typing mark with now - timestamp < 3000, so
\* that it is false once 3 seconds have passed without a refresh, no sweep or
\* timer having run; and it is true in the state that the partner's typing(true)
\* leaves.
C16_PartnerTypingFollowsMark ==
    /\ [](\A p \in DOMAIN pairs : \A viewer \in Members(p) :
            \A partner \in Members(p) \ {viewer} :
                PollOut(p, viewer).resp.partnerTyping
                    = (/\ HasMark(p, partner)
                       /\ now - typingIndicators[p][partner] < TypingWindow))
    /\ [][\A p \in DOMAIN pairs : \A viewer \in Members(p) :
            \A partner \in Members(p) \ {viewer} :
                (/\ TypingOut(p, partner, TRUE).resp.status = 200
                 /\ typingIndicators' = TypingOut(p, partner, TRUE).typingIndicators
                 /\ now' = now)
                    => PollOut(p, viewer)'.resp.partnerTyping]_vars

\* C17: typing(pairId, d, false) removes d's mark at once: in the state it leaves,
\* the partner's poll returns partnerTyping = false; and as long as d has no
\* mark the partner's poll returns false, a mark of d appearing only in a step
\* that installs the result of typing(pairId, d, true).
C17_TypingFalseRemovesMark ==
    /\ [](\A p \in DOMAIN pairs : \A d \in Members(p) : \A viewer \in Members(p) \ {d} :
            ~HasMark(p, d) => ~PollOut(p, viewer).resp.partnerTyping)
    /\ [][\A p \in DOMAIN pairs : \A d \in Members(p) :
            /\ (/\ TypingOut(p, d, FALSE).resp.status = 200
                /\ typingIndicators' = TypingOut(p, d, FALSE).typingIndicators)
                  => /\ ~HasMark(p, d)'
                     /\ \A viewer \in Members(p) \ {d} :
                           ~PollOut(p, viewer)'.resp.partnerTyping
            /\ (~HasMark(p, d) /\ HasMark(p, d)')
                  => typingIndicators' = TypingOut(p, d, TRUE).typingIndicators]_vars

\* C17 witness: d's mark is live, time has passed since it was set, less than 3
\* seconds, and d's typing(false) takes it away.
C17_Witness ==
    \E p \in DOMAIN pairs : \E d \in Members(p) :
        /\ isTyping(p, d, now)
        /\ now > typingIndicators[p][d]
        /\ ~(d \in DOMAIN TypingOut(p, d, FALSE).typingIndicators[p])

(***************************************************************************)
(* Properties of the authorization checks                                  *)
(***************************************************************************)
\* the devices that are not members of pair p
Outsiders(p) == Devices \ Members(p)

\* the typing marks of pair p in a table of marks
MarksOf(table, p) == IF p \in DOMAIN table THEN table[p] ELSE EmptyMap

\* C18 (under SpecChat): for send, poll, typing, read and clear with every
\* required field present, a pairId that is not in the pairs table is answered 404
\* whatever the deviceId, members of existing pairs included, and a pairId that
\* is in the table is answered 403 when the deviceId is neither of its devices.
C18_NotFoundThenNotAuthorized ==
    \A d \in Devices :
        /\ PollOut(UnknownId, d).resp.status = 404
        /\ ClearOut(UnknownId, d).resp.status = 404
        /\ \A c \in ContentLens : SendOut(UnknownId, d, c).resp.status = 404
        /\ \A t \in BOOLEAN : TypingOut(UnknownId, d, t).resp.status = 404
        /\ \A ids \in SUBSET IdInputs : ReadOut(UnknownId, d, TRUE, ids).resp.status = 404
        /\ \A p \in DOMAIN pairs :
              d \in Outsiders(p) =>
                  /\ PollOut(p, d).resp.status = 403
                  /\ ClearOut(p, d).resp.status = 403
                  /\ \A c \in ContentLens : SendOut(p, d, c).resp.status = 403
                  /\ \A t \in BOOLEAN : TypingOut(p, d, t).resp.status = 403
                  /\ \A ids \in SUBSET IdInputs :
                        ReadOut(p, d, TRUE, ids).resp.status = 403

\* C18 witness: a pair holds a message, a device outside it is refused with 403
\* on that pair, and a member of it gets 404 on an unknown pairId.
C18_Witness ==
    \E p \in DOMAIN pairs : \E d \in Outsiders(p), m \in Members(p) :
        /\ Len(messages[p]) > 0
        /\ ClearOut(p, d).resp.status = 403
        /\ ClearOut(UnknownId, m).resp.status = 404
        /\ ClearOut(p, m).resp.status = 200

\* C19 (under SpecChat): a request whose deviceId is not one of the two devices
\* of pair p, whatever pairId it names, leaves p's message list, read flags and
\* typing marks as they are, and when it polls p it is handed no message; and
\* every step that changes p's messages or typing marks installs the result of a
\* send, read, clear or typing request on p by one of its two members.
C19_OnlyMembersTouchPair ==
    /\ [](\A p \in DOMAIN pairs : \A d \in DeviceInputs \ Members(p) :
            /\ PollOut(p, d).resp.status # 200
            /\ PollOut(p, d).resp.messages = <<>>
            /\ \A q \in PairInputs :
                  /\ PollOut(q, d).messages[p] = messages[p]
                  /\ ClearOut(q, d).messages[p] = messages[p]
                  /\ \A c \in ContentInputs : SendOut(q, d, c).messages[p] = messages[p]
                  /\ \A ids \in SUBSET IdInputs :
                        ReadOut(q, d, TRUE, ids).messages[p] = messages[p]
                  /\ \A t \in BOOLEAN :
                        MarksOf(TypingOut(q, d, t).typingIndicators, p)
                            = MarksOf(typingIndicators, p))
    /\ [][\A p \in DOMAIN pairs :
            /\ messages'[p] # messages[p] =>
                  \E d \in Members(p) :
                      \/ \E c \in ContentLens :
                            /\ SendOut(p, d, c).resp.status = 200
                            /\ messages' = SendOut(p, d, c).messages
                      \/ \E ids \in SUBSET IdInputs :
                            /\ ReadOut(p, d, TRUE, ids).resp.status = 200
                            /\ messages' = ReadOut(p, d, TRUE, ids).messages
                      \/ /\ ClearOut(p, d).resp.status = 200
                         /\ messages' = ClearOut(p, d).messages
            /\ MarksOf(typingIndicators', p) # MarksOf(typingIndicators, p) =>
                  \E d \in Members(p) : \E t \in BOOLEAN :
                      /\ TypingOut(p, d, t).resp.status = 200
                      /\ typingIndicators' = TypingOut(p, d, t).typingIndicators]_vars

\* C19 witness: a pair has a message and a typing mark, set by its members, and
\* the device outside it is refused when it polls.
C19_Witness ==
    \E p \in DOMAIN pairs : \E d \in Outsiders(p) :
        /\ Len(messages[p]) > 0
        /\ \E m \in Members(p) : HasMark(p, m)
        /\ PollOut(p, d).resp.status = 403

\* C20 (under SpecPair): status(deviceId, code), for a code that the handler
\* finds in the pending table, is answered 403, with no pairing state, pairId or
\* partnerDeviceId, whenever deviceId is not the code's recorded owner, whether
\* or not the code has been joined; an answer 'pending' or 'paired' goes to the
\* owner of the code only.
C20_StatusOnlyForOwner ==
    \A c \in CodeValues : \A d \in Devices : \A o \in {StatusOut(d, c)} :
        /\ (c \in DOMAIN o.pendingCodes /\ d # o.pendingCodes[c].deviceId) =>
              /\ o.resp.status = 403
              /\ o.resp.pairing = ""
              /\ o.resp.pairId = Null
              /\ o.resp.partnerDeviceId = NoDevice
        /\ o.resp.pairing \in {"pending", "paired"} =>
              /\ c \in DOMAIN pendingCodes
              /\ d = pendingCodes[c].deviceId

\* C20 witness: a code has been joined and is still in the table; its owner is
\* answered 'paired', the device that joined it 403, and another code, not
\* joined, answers 403 to a device that does not own it.
C20_Witness ==
    \E c \in DOMAIN pendingCodes, u \in DOMAIN pendingCodes :
        /\ Unexpired(c) /\ pendingCodes[c].pairId # Null
        /\ StatusOut(pendingCodes[c].deviceId, c).resp.pairing = "paired"
        /\ \E j \in JoinsOn(c) : StatusOut(j.deviceId, c).resp.status = 403
        /\ Unexpired(u) /\ pendingCodes[u].pairId = Null
        /\ \E d \in Devices : StatusOut(d, u).resp.status = 403

(***************************************************************************)
(* Properties of clear (checked under SpecChat)                            *)
(***************************************************************************)
\* C21: clear(pairId, d) by a member is answered 200 and leaves the store with
\* that pair's list empty and every other list as it was; the step that empties
\* a list changes neither the pairs table, nor the typing marks, nor the
\* pending-code table, and in the state it leaves both devices of the pair are
\* still answered 200 when they send and when they poll.
C21_ClearEmptiesOneList ==
    /\ [](\A p \in DOMAIN pairs : \A d \in Members(p) :
            \A o \in {ClearOut(p, d)} :
                /\ o.resp.status = 200
                /\ DOMAIN o.messages = DOMAIN messages
                /\ o.messages[p] = <<>>
                /\ \A q \in DOMAIN messages \ {p} : o.messages[q] = messages[q])
    /\ [][\A p \in DOMAIN pairs : \A d \in Members(p) :
            (/\ Len(messages[p]) > 0
             /\ messages' = ClearOut(p, d).messages)
                => /\ pairs' = pairs
                   /\ typingIndicators' = typingIndicators
                   /\ pendingCodes' = pendingCodes
                   /\ \A m \in Members(p) :
                         /\ PollOut(p, m)'.resp.status = 200
                         /\ PollOut(p, m)'.resp.messages = <<>>
                         /\ \A c \in ContentLens : SendOut(p, m, c)'.resp.status = 200]_vars

\* C21 witness: messages were sent on a pair and its list is empty again, while
\* a typing mark of the pair and the pending code are still there.
C21_Witness ==
    \E p \in DOMAIN pairs : \E d \in Members(p) :
        /\ uuidCount > Cardinality(DOMAIN pairs)
        /\ messages[p] = <<>>
        /\ HasMark(p, d)
        /\ DOMAIN pendingCodes # {}

(***************************************************************************)
(* Requests that end in an error (checked under SpecErr: one code value,   *)
(* owners and joiners that send their deviceId as a string or as a number, *)
(* members that send and type, the clock and the deferred deletions)       *)
(***************************************************************************)
ErrOwners == {"devA", NumberId}
ErrJoiners == {"devB", NumberId}
ErrDevices == {"devA", "devB", NumberId, NoDevice}

GenerateErr == \E d \in ErrOwners : Generate(d, 0, 0, 0)
JoinErr == \E d \in ErrJoiners : Join(d, ChatCode, 0)
StatusErr == \E d \in ErrOwners : Status(d, ChatCode)
SendErr == \E p \in DOMAIN pairs : Send(p, pairs[p].device1Id, MaxContent)
TypingErr == \E p \in DOMAIN pairs : Typing(p, pairs[p].device2Id, TRUE)

NextErr ==
    \/ GenerateErr
    \/ JoinErr
    \/ StatusErr
    \/ SendErr
    \/ TypingErr
    \/ TimerReq
    \/ TickReq

SpecErr == Init /\ [][NextErr]_vars

\* table is the pending-code table less some entries that had expired at time t
OnlyExpiredRemoved(table, t) ==
    /\ DOMAIN table \subseteq DOMAIN pendingCodes
    /\ \A k \in DOMAIN table : table[k] = pendingCodes[k]
    /\ \A k \in DOMAIN pendingCodes \ DOMAIN table : t > pendingCodes[k].expiresAt

IsError(resp) == resp.status \in {400, 403, 404, 500}

\* C22: in every reachable state, every request that is answered with an error
\* (400, 403, 404 or 500) leaves the pairs table, every message list and every
\* typing mark as they were, and leaves a pending-code table that differs from the
\* old one at most by the absence of entries that had expired at the time of the
\* request.
C22_NoPartialSuccess ==
    /\ \A d \in ErrDevices, n \in PrefixLens, c \in RandomDraws, f \in RandomDraws :
          \A o \in {GenerateOut(d, n, c, f)} :
              IsError(o.resp) => OnlyExpiredRemoved(o.pendingCodes, now)
    /\ \A d \in ErrDevices, code \in CodeInputs, dt \in {0, 1} :
          CrossesExpiry(code, dt) =>
              \A o \in {JoinOut(d, code, dt)} :
                  IsError(o.resp) => /\ o.pairs = pairs
                                     /\ o.messages = messages
                                     /\ OnlyExpiredRemoved(o.pendingCodes, o.now)
    /\ \A d \in ErrDevices, code \in CodeInputs :
          \A o \in {StatusOut(d, code)} :
              IsError(o.resp) => OnlyExpiredRemoved(o.pendingCodes, now)
    /\ \A p \in PairInputs, d \in ErrDevices :
          /\ \A c \in ContentInputs : \A o \in {SendOut(p, d, c)} :
                IsError(o.resp) => o.messages = messages
          /\ \A o \in {PollOut(p, d)} : IsError(o.resp) => o.messages = messages
          /\ \A t \in BOOLEAN : \A o \in {TypingOut(p, d, t)} :
                IsError(o.resp) => o.typingIndicators = typingIndicators
          /\ \A ids \in ReadSets, a \in BOOLEAN : \A o \in {ReadOut(p, d, a, ids)} :
                IsError(o.resp) => o.messages = messages
          /\ \A o \in {ClearOut(p, d)} : IsError(o.resp) => o.messages = messages

(***************************************************************************)
(* The candidates of generate (checked under SpecPair)                     *)
(***************************************************************************)
\* the i-th candidate of a generate whose first n draws are c and the others f
Candidate(i, n, c, f) == generateCode(IF i <= n THEN c ELSE f)

\* the positions, among the 100 candidates, of those not in the table
FreeDraws(table, n, c, f) ==
    {i \in 1..MaxAttempts : Candidate(i, n, c, f) \notin DOMAIN table}

\* C24: in every reachable state, a generate by an unpaired device that names
\* itself is answered 500 only if all of its 100 candidates are in the pending
\* table (as the sweep leaves it); whenever one of the 100 candidates, the 100th
\* included, is not in the table, the request is answered 200 with the first such
\* candidate and stores it.
C24_FreeCandidateIsIssued ==
    \A d \in Devices, n \in PrefixLens, c \in RandomDraws, f \in RandomDraws :
        ~IsPaired(d) =>
            \A o \in {GenerateOut(d, n, c, f)} :
            \A free \in {FreeDraws(cleanupExpiredCodes(pendingCodes, now), n, c, f)} :
                /\ o.resp.status = 500 => free = {}
                /\ free # {} =>
                      \E i \in free :
                          /\ \A j \in free : i <= j
                          /\ o.resp.status = 200
                          /\ o.resp.code = Candidate(i, n, c, f)
                          /\ Candidate(i, n, c, f) \in DOMAIN o.pendingCodes

(***************************************************************************)
(* The sweep at the head of generate, join and status (under SpecGrace)    *)
(***************************************************************************)
\* the table holds no entry that had expired before time t
NoneExpired(table, t) == \A k \in DOMAIN table : ~(table[k].expiresAt < t)

\* C28: in every reachable state, whatever generate, join or status request is
\* made (with or without its required fields, by a paired or an unpaired device),
\* the pending-code table it leaves holds no entry whose expiresAt is earlier than
\* the time of the request; and an expired entry takes part in no decision: a
\* candidate that only an expired entry holds is free for generate (the first draw
\* is issued), and join and status on an expired code are answered 404 as for a
\* code that is absent, never 'Code expired', 403 or 200.
C28_SweepComesFirst ==
    /\ \A d \in DeviceInputs, n \in PrefixLens, c \in RandomDraws, f \in RandomDraws :
          \A o \in {GenerateOut(d, n, c, f)} :
              /\ NoneExpired(o.pendingCodes, now)
              /\ (d # NoDevice /\ ~IsPaired(d) /\ Expired(Candidate(1, n, c, f)))
                    => o.resp.status = 200 /\ o.resp.code = Candidate(1, n, c, f)
    /\ \A d \in DeviceInputs, code \in CodeInputs, dt \in {0, 1} :
          CrossesExpiry(code, dt) =>
              \A o \in {JoinOut(d, code, dt)} :
                  /\ NoneExpired(o.pendingCodes, now)
                  /\ (d # NoDevice /\ ~IsPaired(d) /\ Expired(code))
                        => o.resp.status = 404 /\ code \notin DOMAIN o.pendingCodes
    /\ \A d \in DeviceInputs, code \in CodeInputs :
          \A o \in {StatusOut(d, code)} :
              /\ NoneExpired(o.pendingCodes, now)
              /\ (d # NoDevice /\ Expired(code))
                    => o.resp.status = 404 /\ code \notin DOMAIN o.pendingCodes

\* a code was issued and never joined, its expiry has passed, and a request has
\* swept it away
C28_Witness ==
    /\ issued > 0
    /\ uuidCount = 0
    /\ now > StartTime + CodeTTL
    /\ pendingCodes = EmptyMap

(***************************************************************************)
(* The message store and the pairs table (checked under SpecFlow)          *)
(***************************************************************************)
\* C29: in every reachable state the pair ids that have a message list are exactly
\* the pair ids of the pairs table, and every request leaves it so: a join that
\* adds a Pair adds, under the same id, an empty message list, and send, read and
\* clear neither add a list for an id that is not a Pair nor drop the list of one.
C29_StoreFollowsRegistry ==
    /\ DOMAIN messages = DOMAIN pairs
    /\ \A d \in DeviceInputs, code \in CodeInputs :
          \A o \in {JoinOut(d, code, 0)} :
              /\ DOMAIN o.messages = DOMAIN o.pairs
              /\ \A p \in DOMAIN o.pairs \ DOMAIN pairs : o.messages[p] = <<>>
              /\ \A p \in DOMAIN pairs : o.messages[p] = messages[p]
    /\ \A p \in PairInputs, d \in DeviceInputs :
          /\ \A c \in ContentInputs : DOMAIN SendOut(p, d, c).messages = DOMAIN pairs
          /\ \A ids \in ReadSets : DOMAIN ReadOut(p, d, TRUE, ids).messages = DOMAIN pairs
          /\ DOMAIN ClearOut(p, d).messages = DOMAIN pairs
          /\ DOMAIN PollOut(p, d).messages = DOMAIN pairs

\* a join has just created a Pair and its empty list, and nothing was sent yet
C29_Witness ==
    /\ DOMAIN pairs # {}
    /\ uuidCount = Cardinality(DOMAIN pairs)
    /\ \A p \in DOMAIN pairs : p \in DOMAIN messages /\ messages[p] = <<>>

(***************************************************************************)
(* The sender and the initial read flag of a message (under SpecFlow)      *)
(***************************************************************************)
\* C30: in every reachable state every stored message of every pair has a
\* senderId that is one of the two device ids of that pair; and every send that is
\* answered 200 appends, as the last element of the pair's list, a message with
\* the id it returns, the requesting device as senderId and read = false.
C30_SenderIsMemberAndUnread ==
    /\ \A p \in DOMAIN messages : \A m \in Stored(p) :
          p \in DOMAIN pairs /\ m.senderId \in Members(p)
    /\ \A p \in PairInputs, d \in DeviceInputs, c \in ContentInputs :
          \A o \in {SendOut(p, d, c)} :
              o.resp.status = 200 =>
                  \A last \in {o.messages[p][Len(o.messages[p])]} :
                      /\ last.id = o.resp.messageId
                      /\ last.senderId = d
                      /\ d \in Members(p)
                      /\ last.read = FALSE
                      /\ last.id \notin StoredIds(messages)

\* both devices of a pair have a stored message, and one of the two has since
\* been marked read
C30_Witness ==
    \E p \in DOMAIN pairs :
        /\ \A d \in Members(p) : \E m \in Stored(p) : m.senderId = d
        /\ \E m \in Stored(p) : m.read
        /\ \E m \in Stored(p) : ~m.read

(***************************************************************************)
(* The grace window of a joined code (checked under SpecPair)              *)
(***************************************************************************)
\* what status answers to the owner of a Pair that a join on this code created
ShowsPaired(resp) ==
    /\ resp.status = 200
    /\ resp.pairing = "paired"
    /\ resp.pairId \in DOMAIN pairs
    /\ pairs[resp.pairId].device1Id = resp.deviceId

\* C26: in every reachable state in which the deferred deletion that a successful
\* join scheduled for a code has not fired yet, status(owner, code) is answered
\* 200 'paired' with the id of a Pair whose first device is that owner: it is
\* answered neither 404 nor 'pending'.
C26_GraceWindowShowsPaired ==
    \A t \in timers : \E d \in Devices : ShowsPaired(StatusOut(d, t.code).resp)

(***************************************************************************)
(* Who deletes a pending entry (checked under SpecPair)                    *)
(***************************************************************************)
\* C25: in every step, an entry of the pending-code table that no join has bound
\* to a Pair and that has not expired by the time the step ends is still in the
\* table, unchanged but for a binding by a join of this step, in the next state:
\* neither a request nor the deferred deletion that an earlier join scheduled for
\* the same 4-digit value removes it.
C25_LiveUnjoinedEntryStays ==
    [][\A code \in DOMAIN pendingCodes :
          (/\ pendingCodes[code].pairId = Null
           /\ ~(now' > pendingCodes[code].expiresAt))
              => /\ code \in DOMAIN pendingCodes'
                 /\ pendingCodes'[code].deviceId = pendingCodes[code].deviceId
                 /\ pendingCodes'[code].expiresAt = pendingCodes[code].expiresAt]_vars

(***************************************************************************)
(* The deferred deletion of a joined code (checked under SpecGrace: the    *)
(* pairing requests of three devices, and timers that run when due even    *)
(* if no request arrives)                                                  *)
(***************************************************************************)
\* a deferred deletion that takes its timer off the queue and deletes nothing
TimerDueKeep(t) ==
    /\ t \in timers
    /\ \A tm \in timers : t.fireAt <= tm.fireAt
    /\ timers' = timers \ {t}
    /\ now' = IF now < t.fireAt THEN t.fireAt ELSE now
    /\ joinLog' = joinLog
    /\ UNCHANGED <<inbox, pendingCodes, pairs, messages, typingIndicators, uuidCount, ticks,
                   issued, pollLog>>

\* setTimeout(() => pendingCodes.delete(code), 5000): the earliest pending timer
\* runs once its delay has elapsed, the time until then passing without a request
TimerDue(t) ==
    /\ t \in timers
    /\ \A tm \in timers : t.fireAt <= tm.fireAt
    /\ timers' = timers \ {t}
    /\ now' = IF now < t.fireAt THEN t.fireAt ELSE now
    /\ pendingCodes' = MapDelete(pendingCodes, t.code)
    /\ joinLog' = {j \in joinLog : j.code # t.code}
    /\ UNCHANGED <<inbox, pairs, messages, typingIndicators, uuidCount, ticks, issued, pollLog>>

\* every generate draws the same value, so that a Pair exists only if that value
\* was joined
GenerateGrace == \E d \in Devices : Generate(d, 0, 0, 0)
JoinGrace == \E d \in Devices : Join(d, ChatCode, 0)
StatusGrace == \E d \in Devices : Status(d, ChatCode)
TimerDueReq == \E t \in timers : TimerDue(t)

NextGrace ==
    \/ GenerateGrace
    \/ JoinGrace
    \/ StatusGrace
    \/ TimerDueReq
    \/ TickReq

\* Node runs a timer callback once its delay has elapsed
SpecGrace == Init /\ [][NextGrace]_vars /\ WF_vars(TimerDueReq)

Joined(code) == code \in DOMAIN pendingCodes /\ pendingCodes[code].pairId # Null

\* what is left of the pending table once the sweep has run
Swept == cleanupExpiredCodes(pendingCodes, now)

\* the code value was joined, and the table that the sweep leaves no longer
\* holds it
JoinedAndRemoved(code) == DOMAIN pairs # {} /\ code \notin DOMAIN Swept

\* C27 as stated: a code that a join has bound to a Pair is eventually out of the
\* table (or replaced by a fresh issue of its value), with no request needed; and
\* while a joined code value is out of the table, status and join on it by a
\* device that names itself are answered 404.
C27_RemovedCodeIs404 ==
    /\ Joined(ChatCode) ~> ~Joined(ChatCode)
    /\ [](JoinedAndRemoved(ChatCode) =>
            \A d \in Devices :
                /\ StatusOut(d, ChatCode).resp.status = 404
                /\ JoinOut(d, ChatCode, 0).resp.status = 404)

\* C27 (amended): a code that a join has bound to a Pair is eventually out of the
\* table (or replaced by a fresh issue of its value), with no request needed; and
\* while a joined code value is out of the table, status on it by a device that
\* names itself is answered 404, and join on it is answered 404 when the device is
\* in no Pair and 400 'Device already paired' when it is; neither creates a Pair
\* nor puts the code back.
C27_JoinedCodeIsRemoved ==
    /\ Joined(ChatCode) ~> ~Joined(ChatCode)
    /\ [](JoinedAndRemoved(ChatCode) =>
            \A d \in Devices :
                /\ StatusOut(d, ChatCode).resp.status = 404
                /\ \A o \in {JoinOut(d, ChatCode, 0)} :
                      /\ o.pairs = pairs
                      /\ ChatCode \notin DOMAIN o.pendingCodes
                      /\ o.resp.status = IF IsPaired(d) THEN 400 ELSE 404
                      /\ IsPaired(d) => o.resp.error = "Device already paired")

\* a code was joined and its deferred deletion has run: the Pair exists, no timer
\* is pending and the table is empty
C27_Witness ==
    /\ DOMAIN pairs # {}
    /\ timers = {}
    /\ pendingCodes = EmptyMap
    /\ now >= StartTime + GraceDelay

(***************************************************************************)
(* The chat client's fetch (ChatScreen.tsx fetchMessages): a poll, then a  *)
(* read request for the unread messages of the partner that the poll       *)
(* returned.  Other requests may be handled between the two.               *)
(***************************************************************************)
\* a filter that keeps the client's own unread messages
UnreadMine(list, deviceId) ==
    {list[i].id : i \in {k \in 1..Len(list) :
                            ~list[k].read /\ list[k].senderId = deviceId}}

\* newMessages.filter(msg => !msg.read && msg.senderId !== pairingData.deviceId)
\*            .map(msg => msg.id)
UnreadForMe(list, deviceId) ==
    {list[i].id : i \in {k \in 1..Len(list) :
                            ~list[k].read /\ list[k].senderId # deviceId}}

\* pollMessages(pairId, deviceId) of a client that has no fetch under way
FetchPoll(pairId, deviceId) ==
    \E o \in {PollOut(pairId, deviceId)} :
    /\ deviceId \notin DOMAIN inbox
    /\ o.resp.status = 200
    /\ messages' = o.messages
    /\ pollLog' = [m \in DOMAIN pollLog \cup Received(o.resp) |->
                     IF m \in Received(o.resp)
                     THEN Min(MaxPolls, 1 + (IF m \in DOMAIN pollLog THEN pollLog[m] ELSE 0))
                     ELSE pollLog[m]]
    /\ inbox' = IF UnreadForMe(o.resp.messages, deviceId) # {}
                THEN MapSet(inbox, deviceId, UnreadForMe(o.resp.messages, deviceId))
                ELSE inbox
    /\ UNCHANGED <<pendingCodes, pairs, typingIndicators, timers, now, uuidCount,
                   ticks, issued, joinLog>>

\* markMessagesRead(pairId, deviceId, unreadMessages.map(msg => msg.id))
FetchRead(pairId, deviceId) ==
    /\ deviceId \in DOMAIN inbox
    /\ \E o \in {ReadOut(pairId, deviceId, TRUE, inbox[deviceId])} :
          messages' = o.messages
    /\ inbox' = MapDelete(inbox, deviceId)
    /\ UNCHANGED <<pendingCodes, pairs, typingIndicators, timers, now, uuidCount,
                   ticks, issued, joinLog, pollLog>>

(***************************************************************************)
(* SpecFlow: devA and devB pair, both send and clear, and both run the     *)
(* chat client; devB's client keeps polling (setInterval, 1 s).            *)
(***************************************************************************)
FlowDevices == {"devA", "devB"}

SendFlow == \E p \in DOMAIN pairs : \E d \in Members(p), c \in ContentLens : Send(p, d, c)
ClearFlow == \E p \in DOMAIN pairs : \E d \in Members(p) : Clear(p, d)
FetchPollReq(d) == \E p \in PairsOf(d) : FetchPoll(p, d)
FetchReadReq(d) == \E p \in PairsOf(d) : FetchRead(p, d)
FetchReq == \E d \in FlowDevices : FetchPollReq(d) \/ FetchReadReq(d)

NextFlow ==
    \/ GenerateChat
    \/ JoinChat
    \/ SendFlow
    \/ ClearFlow
    \/ FetchReq

SpecFlow ==
    /\ Init
    /\ [][NextFlow]_vars
    /\ WF_vars(FetchPollReq("devB"))
    /\ WF_vars(FetchReadReq("devB"))

\* the ids the server can have drawn under SpecFlow: one pair, MaxSends messages
FlowIds == 1..(MaxSends + 1)

\* message id, sent by sender, is stored and its read flag is false
SentUnread(id, sender) ==
    \E p \in DOMAIN messages : \E m \in Stored(p) :
        m.id = id /\ m.senderId = sender /\ ~m.read

\* C23: (a) a poll by a member returns every stored message of the pair, and the
\* fetch that made it then holds exactly the ids of the polled messages that are
\* unread and were sent by the partner; (b) once the client has made its read
\* request with those ids, each of them that is still stored is shown with
\* read = true by the partner's next poll; (c) with devB's client polling fairly,
\* every message that devA sent and that is stored unread is eventually read, or
\* cleared (eviction does not occur under the bounds).
C23_ReadReceiptFlow ==
    /\ [](\A p \in DOMAIN pairs : \A d \in Members(p) :
              PollOut(p, d).resp.messages = messages[p])
    /\ [][\A d \in FlowDevices : \A p \in PairsOf(d) :
              (d \notin DOMAIN inbox /\ d \in DOMAIN inbox')
                  => inbox'[d] = {m.id : m \in {x \in Stored(p) :
                                                  ~x.read /\ x.senderId # d}}]_vars
    /\ [][\A d \in FlowDevices : \A p \in PairsOf(d) :
              (d \in DOMAIN inbox /\ d \notin DOMAIN inbox')
                  => \A a \in Members(p) \ {d} :
                     \A shown \in {PollOut(p, a)'.resp.messages} :
                     \A i \in 1..Len(shown) :
                        shown[i].id \in inbox[d] => shown[i].read]_vars
    /\ \A id \in FlowIds : SentUnread(id, "devA") ~> ~SentUnread(id, "devA")

\* devB's client has polled a message of devA and reported it, the message is
\* stored with read = true, and a later message of devA is still unread
C23_Witness ==
    \E p \in DOMAIN pairs : \E m \in Stored(p) :
        /\ m.senderId = "devA"
        /\ m.read
        /\ Polled(m)
        /\ "devB" \notin DOMAIN inbox
        /\ \E id \in FlowIds : SentUnread(id, "devA")

(***************************************************************************)
(* SpecTwo: two Pairs, devA with devB and devC with devD, as two generate  *)
(* and join exchanges leave them once the deferred deletions have run; the *)
(* four devices then send, poll, type, read and clear on either pair.      *)
(***************************************************************************)
TwoDevices == {"devA", "devB", "devC", "devD"}

InitTwo ==
    /\ pendingCodes = EmptyMap
    /\ pairs = [p \in {1, 2} |-> IF p = 1 THEN NewPair("devA", "devB")
                                          ELSE NewPair("devC", "devD")]
    /\ messages = [p \in {1, 2} |-> <<>>]
    /\ typingIndicators = EmptyMap
    /\ timers = {}
    /\ now = StartTime + GraceDelay
    /\ uuidCount = 2
    /\ ticks = 0
    /\ issued = 2
    /\ joinLog = {}
    /\ pollLog = EmptyMap
    /\ inbox = EmptyMap

\* every uuid drawn so far, and one that was never drawn
DrawnIds == 1..UnknownId

SendTwo == \E p \in DOMAIN pairs, d \in TwoDevices : Send(p, d, MaxContent)
PollTwo == \E p \in DOMAIN pairs, d \in TwoDevices : PollCap(p, d)
TypingTwo == \E p \in DOMAIN pairs, d \in TwoDevices, t \in BOOLEAN : Typing(p, d, t)
ReadTwo == \E p \in DOMAIN pairs, d \in TwoDevices, ids \in ReadSets : Read(p, d, TRUE, ids)
ClearTwo == \E p \in DOMAIN pairs, d \in TwoDevices : Clear(p, d)

NextTwo ==
    \/ SendTwo
    \/ PollTwo
    \/ TypingTwo
    \/ ReadTwo
    \/ ClearTwo

SpecTwo == InitTwo /\ [][NextTwo]_vars

(***************************************************************************)
(* Read requests with ids of no message of the pair (under SpecTwo)        *)
(***************************************************************************)
\* the ids of the messages stored for pair p
IdsOf(p) == {m.id : m \in Stored(p)}

\* C31: in every reachable state, read(p, d, ids) by a member d of p is answered
\* 200 for every set of ids, drawn or not, stored in p, stored in the other pair,
\* cleared, or the id of a pair; it leaves every other pair's list as it was; in
\* p it changes no id, sender or content, and a message's read flag afterwards is
\* true exactly when it was true before or its id is in the set and its sender is
\* not d; a set with no id of p changes nothing.
C31_UnknownIdsAreIgnored ==
    \A p \in DOMAIN pairs : \A d \in Members(p) : \A ids \in SUBSET DrawnIds :
        \A o \in {ReadOut(p, d, TRUE, ids)} :
            /\ o.resp.status = 200
            /\ DOMAIN o.messages = DOMAIN messages
            /\ \A q \in DOMAIN messages \ {p} : o.messages[q] = messages[q]
            /\ Len(o.messages[p]) = Len(messages[p])
            /\ \A i \in 1..Len(messages[p]) :
                  \A old \in {messages[p][i]} : \A new \in {o.messages[p][i]} :
                      /\ new.id = old.id
                      /\ new.senderId = old.senderId
                      /\ new.content = old.content
                      /\ new.read = (old.read \/ (old.id \in ids /\ old.senderId # d))
            /\ ids \cap IdsOf(p) = {} => o.messages = messages

\* one pair holds a message that a read request has marked and the other pair an
\* unread one: a read set can name ids of the own pair, of the other pair, of a
\* pair and of no message at all
C31_Witness ==
    \E p \in DOMAIN pairs : \E q \in DOMAIN pairs \ {p} :
        /\ \E m \in Stored(p) : m.read
        /\ \E m \in Stored(q) : ~m.read

(***************************************************************************)
(* Interleaved sends (under SpecTwo).  A handler runs to completion, so    *)
(* sends interleave as whole requests; a message id is the index of its    *)
(* uuidv4() draw, so ids grow in the order the requests were handled.      *)
(***************************************************************************)
\* C32: in every reachable state no two stored messages, of the same or of
\* different pairs, have the same id, and each list holds its messages in the
\* order their sends were handled; a send by a member that finds the list under
\* the cap is answered 200 and leaves the old list followed by exactly one new
\* message, whose id is the one returned and is not stored anywhere; and poll
\* returns the stored list in its order.
C32_SendsAreKeptInOrder ==
    /\ \A p \in DOMAIN messages : \A i \in 1..Len(messages[p]) :
          /\ \A j \in 1..Len(messages[p]) : i < j => messages[p][i].id < messages[p][j].id
          /\ \A q \in DOMAIN messages \ {p} : messages[p][i].id \notin IdsOf(q)
    /\ \A p \in DOMAIN pairs : \A d \in Members(p) :
          /\ PollOut(p, d).resp.messages = messages[p]
          /\ \A c \in ContentLens : \A o \in {SendOut(p, d, c)} :
                Len(messages[p]) < MaxMessages =>
                    /\ o.resp.status = 200
                    /\ o.resp.messageId \notin StoredIds(messages)
                    /\ o.messages[p] =
                          Append(messages[p],
                                 [id |-> o.resp.messageId, senderId |-> d,
                                  content |-> Min(c, MaxContent), read |-> FALSE])
                    /\ \A q \in DOMAIN messages \ {p} : o.messages[q] = messages[q]

\* a list holds two messages, the first sent by one device of the pair and the
\* second by the other
C32_Witness ==
    \E p \in DOMAIN pairs :
        /\ Len(messages[p]) = 2
        /\ messages[p][1].senderId # messages[p][2].senderId

(***************************************************************************)
(* The pairs table over time (checked under SpecReg: the pairing requests, *)
(* the clock, the deferred deletions, and the client's resetDevice call)   *)
(***************************************************************************)
\* a reset route that removes the Pairs of the device
DeviceResetUnpair(deviceId) ==
    /\ pairs' = [p \in {q \in DOMAIN pairs : ~IsMember(q, deviceId)} |-> pairs[p]]
    /\ UNCHANGED <<pendingCodes, messages, typingIndicators, timers, now, uuidCount,
                   ticks, issued, joinLog, pollLog, inbox>>

\* POST /api/device/reset (api.ts resetDevice): the server registers no such
\* route, so no handler runs and Express answers 404
DeviceReset(deviceId) == UNCHANGED vars

ResetReq == \E d \in Devices : DeviceReset(d)

NextReg ==
    \/ GenerateGrace
    \/ JoinGrace
    \/ StatusGrace
    \/ TimerReq
    \/ TickReq
    \/ ResetReq

SpecReg == Init /\ [][NextReg]_vars

MarkIn(table, q, e) ==
    IF q \in DOMAIN table /\ e \in DOMAIN table[q] THEN {table[q][e]} ELSE {}

\* what each request on pair p by device d leaves of the other pair and of the
\* other devices' marks
RequestsStayInPair ==
    \A p \in DOMAIN pairs, d \in TwoDevices :
        /\ \A c \in ContentInputs : \A o \in {SendOut(p, d, c)} :
              \A q \in DOMAIN messages \ {p} :
                  q \in DOMAIN o.messages /\ o.messages[q] = messages[q]
        /\ \A ids \in SUBSET DrawnIds : \A o \in {ReadOut(p, d, TRUE, ids)} :
              \A q \in DOMAIN messages \ {p} :
                  q \in DOMAIN o.messages /\ o.messages[q] = messages[q]
        /\ \A o \in {ClearOut(p, d)} :
              \A q \in DOMAIN messages \ {p} :
                  q \in DOMAIN o.messages /\ o.messages[q] = messages[q]
        /\ \A t \in BOOLEAN : \A o \in {TypingOut(p, d, t)} :
              /\ \A q \in DOMAIN pairs \ {p} :
                    MarksOf(o.typingIndicators, q) = MarksOf(typingIndicators, q)
              /\ \A q \in DOMAIN pairs : \A e \in TwoDevices \ {d} :
                    MarkIn(o.typingIndicators, q, e) = MarkIn(typingIndicators, q, e)

\* C34: in every reachable state, a send, read, typing or clear request that
\* names pair p, by any of the four devices and whatever its answer, leaves the
\* message list of every other pair as it was (send, read, clear) and the typing
\* marks of every other pair as they were (typing); and a typing request leaves
\* the mark of every device other than the caller, in p as in the other pair, as
\* it was.  A step that changes a message list changes no typing mark, and a
\* step that changes a typing mark changes no message list.
C34_OtherPairsUntouched ==
    /\ [][messages' = messages \/ typingIndicators' = typingIndicators]_vars
    /\ []RequestsStayInPair

\* both devices of one pair have a typing mark, the other pair has a mark and a
\* stored message
C34_Witness ==
    \E p \in DOMAIN pairs : \E q \in DOMAIN pairs \ {p} :
        /\ \A d \in Members(p) : HasMark(p, d)
        /\ \E e \in Members(q) : HasMark(q, e)
        /\ messages[q] # <<>>

(***************************************************************************)
(* What a successful generate changes (checked under SpecCodes: the three  *)
(* devices generate either code value and join, with the clock and the     *)
(* deferred deletions)                                                     *)
(***************************************************************************)
GenerateCodes == \E d \in Devices, c \in RandomDraws : Generate(d, 0, c, c)
JoinCodes == \E d \in Devices, c \in CodeValues : Join(d, c, 0)

NextCodes ==
    \/ GenerateCodes
    \/ JoinCodes
    \/ TimerReq
    \/ TickReq

SpecCodes == Init /\ [][NextCodes]_vars

\* C35: in every reachable state a generate that is answered 200 leaves the swept
\* table plus exactly one entry, under the returned code, with the caller as
\* owner, expiresAt = now + 7 minutes and no pairId, every other entry being as it
\* was; and the step of a successful generate changes no pair, message list,
\* typing mark or timer, keeps every entry that had not expired, those of the
\* caller included, and leaves each of them joinable: a join on it by a device
\* that is in no Pair and is not its owner is answered 200.
C35_GenerateAddsOneEntry ==
    /\ [](\A d \in Devices, n \in PrefixLens, c \in RandomDraws, f \in RandomDraws :
            \A o \in {GenerateOut(d, n, c, f)} :
            \A swept \in {cleanupExpiredCodes(pendingCodes, now)} :
                o.resp.status = 200 =>
                    /\ o.resp.code \notin DOMAIN swept
                    /\ DOMAIN o.pendingCodes = DOMAIN swept \cup {o.resp.code}
                    /\ o.pendingCodes[o.resp.code] =
                          [deviceId |-> d, expiresAt |-> now + CodeTTL, pairId |-> Null]
                    /\ o.resp.expiresAt = now + CodeTTL
                    /\ \A k \in DOMAIN swept : o.pendingCodes[k] = swept[k])
    /\ [][issued' = issued + 1 =>
            /\ pairs' = pairs
            /\ messages' = messages
            /\ typingIndicators' = typingIndicators
            /\ timers' = timers
            /\ Cardinality(DOMAIN pendingCodes' \ DOMAIN pendingCodes) <= 1
            /\ \A k \in DOMAIN pendingCodes :
                  Unexpired(k) =>
                      /\ k \in DOMAIN pendingCodes'
                      /\ pendingCodes'[k] = pendingCodes[k]
                      /\ \A e \in Devices :
                            (~IsPaired(e) /\ e # pendingCodes[k].deviceId)
                                => JoinOut(e, k, 0)'.resp.status = 200]_vars

\* one device holds two unexpired codes, neither of them joined
C35_Witness ==
    \E k \in DOMAIN pendingCodes : \E j \in DOMAIN pendingCodes \ {k} :
        /\ pendingCodes[k].deviceId = pendingCodes[j].deviceId
        /\ Unexpired(k) /\ Unexpired(j)
        /\ pendingCodes[k].pairId = Null /\ pendingCodes[j].pairId = Null

(***************************************************************************)
(* The order of join's checks (checked under SpecCodes)                    *)
(***************************************************************************)
\* C36: in every reachable state a join that names a code, by a device that is in
\* a Pair, is answered 400 'Device already paired' and creates no Pair, whether
\* the code is absent from the table, expired, unexpired, or the caller's own; it
\* is never answered 404 (nor 'Code expired' or 'Cannot pair with yourself').
C36_PairedCheckComesFirst ==
    \A d \in Devices : IsPaired(d) =>
        \A code \in CodeValues, dt \in {0, 1} :
            CrossesExpiry(code, dt) =>
                \A o \in {JoinOut(d, code, dt)} :
                    /\ o.resp.status = 400
                    /\ o.resp.error = "Device already paired"
                    /\ o.pairs = pairs
                    /\ o.messages = messages
                    /\ o.timers = timers

\* a device in a Pair owns an unexpired code and another code in the table has
\* expired: a join by that device can name its own code or an expired one
C36_Witness ==
    \E d \in Devices :
        /\ IsPaired(d)
        /\ \E k \in DOMAIN pendingCodes : Unexpired(k) /\ pendingCodes[k].deviceId = d
        /\ \E j \in DOMAIN pendingCodes : Expired(j)

(***************************************************************************)
(* What a device outside a pair learns (checked under SpecTwo)             *)
(***************************************************************************)
\* the refusal of route op to device d: it is built from the route and the caller
\* alone
Refusal(op, d) == Reply(op, d, 403, "Not authorized")

\* C37: in every reachable state, whatever messages, read flags and typing marks
\* pair p holds, a send, poll, typing, read or clear request that names p with its
\* fields present, from a device that is not one of p's two, is answered with the
\* same response, the 403 built from the route and the caller alone, and writes
\* nothing; two states that differ only in what p holds therefore give that device
\* the same response.
C37_RefusalShowsNothing ==
    \A p \in DOMAIN pairs : \A d \in TwoDevices \ Members(p) :
        /\ \A c \in ContentLens : \A o \in {SendOut(p, d, c)} :
              /\ o.resp = Refusal("send", d)
              /\ o.messages = messages /\ o.uuidCount = uuidCount
        /\ \A o \in {PollOut(p, d)} :
              o.resp = Refusal("poll", d) /\ o.messages = messages
        /\ \A t \in BOOLEAN : \A o \in {TypingOut(p, d, t)} :
              o.resp = Refusal("typing", d) /\ o.typingIndicators = typingIndicators
        /\ \A ids \in SUBSET DrawnIds : \A o \in {ReadOut(p, d, TRUE, ids)} :
              o.resp = Refusal("read", d) /\ o.messages = messages
        /\ \A o \in {ClearOut(p, d)} :
              o.resp = Refusal("clear", d) /\ o.messages = messages

\* a pair holds a read and an unread message and a typing mark: content that a
\* response to a device of the other pair could give away
C37_Witness ==
    \E p \in DOMAIN pairs :
        /\ \E m \in Stored(p) : m.read
        /\ \E m \in Stored(p) : ~m.read
        /\ \E d \in Members(p) : HasMark(p, d)

====
